---- MODULE Spec2Model ----
(***************************************************************************)
(* Porter: a gateway that fronts supervised tool-protocol backends         *)
(* (subprocess and HTTP) and command-line programs behind one namespaced   *)
(* tool catalog.                                                           *)
(*                                                                         *)
(* The module holds several specifications over one set of variables:      *)
(*   SpecGuard   AccessGuard::check applied to drawn configurations/args   *)
(*   SpecCli     CliHandle::call_tool: extract, decode, guard, spawn, wait *)
(*   SpecSup     one supervised protocol backend (run_stdio_server /       *)
(*               run_http_server) with registry callers and shutdown       *)
(*   SpecSupFair SpecSup with the fairness the scheduler gives             *)
(*   SpecHealth  a connected backend handling calls while time passes      *)
(*   SpecReload  the server adapter sessions and the hot-reload task       *)
(*                                                                         *)
(* Strings the code inspects character by character (prefix tests, "__"    *)
(* and '_' splitting) are sequences of one-character strings.              *)
(***************************************************************************)
EXTENDS Integers, Sequences, FiniteSets, TLC

VARIABLES
    \* ---- access guard / CLI handle (src/src/cli) ----
    guard,        \* AccessGuard {allow, deny, write_access, is_read_only_fn}
    cliExpanded,  \* CliHandle.expanded
    cliInject,    \* CliHandle.inject_flags
    cliPc,        \* position of the one modelled call_tool invocation
    cliParams,    \* CallToolRequestParams {name, arguments}
    cliArgs,      \* args_vec: decoded subcommand path ++ user args
    cliCheck,     \* result of guard.check for cliArgs
    cliLog,       \* guard checks and spawns of the current call, in order
    cliChild,     \* the current call's subprocess: none/running/exited/killed
    cliOutcome    \* what call_tool returned

cliVars == <<guard, cliExpanded, cliInject, cliPc, cliParams, cliArgs,
             cliCheck, cliLog, cliChild, cliOutcome>>

VARIABLES
    \* ---- one supervised protocol backend (src/src/server) ----
    transport,             \* ServerConfig.transport: "stdio" or "http"
    supPc,                 \* position of run_stdio_server / run_http_server
    consecutive_failures,  \* the supervisor's failure counter
    backoff,               \* the supervisor's current backoff, in seconds
    health,                \* value held by the health watch channel
    tools,                 \* the handle's tool list (Arc<RwLock<Vec<Tool>>>)
    error_tracker,         \* ErrorRateTracker.window: sequence of [ts, err]
    session,               \* the protocol session: none / alive / ended
    child,                 \* the subprocess the supervisor holds: none/alive/dead
    orphans,               \* subprocesses dropped by the supervisor while alive
    cancel,                \* the registry's root cancellation token is tripped
    call_rx,               \* requests queued on the backend's call channel
    cur,                   \* request being forwarded by the supervisor, 0 if none
    supExit,               \* why the supervisor returned
    \* ---- registry callers (src/src/registry.rs, src/src/server/mod.rs) ----
    callPc,                \* per caller: idle / sending / waiting / done
    callName,              \* per caller: the namespaced name it called
    callSaw,               \* per caller: whether the health it read was Unhealthy
    callOutcome,           \* per caller: what its call returned
    \* ---- time and history ----
    now,                   \* the clock, in seconds
    accepted,              \* requests in the order the channel accepted them
    forwarded,             \* requests in the order the backend received them
    owed,                  \* failures not yet followed by a backoff sleep
    listed,                \* last successful tool listing of the current session
    samples,               \* every sample recorded in the current session
    pubAt,                 \* when health was last published for a handled call
    spawnedAfterCancel     \* a spawn/connect was attempted after cancel tripped

supVars == <<transport, supPc, consecutive_failures, backoff, health, tools,
             error_tracker, session, child, orphans, cancel, call_rx, cur,
             supExit>>

callVars == <<callPc, callName, callSaw, callOutcome>>

histVars == <<now, accepted, forwarded, owed, listed, samples, pubAt,
              spawnedAfterCancel>>

VARIABLES
    \* ---- server adapter and hot-reload task (src/src/standalone) ----
    current,      \* the Arc<PorterRegistry> inside the RwLock: [gen, cfg]
    file,         \* what the watched config file holds
    events,       \* watcher events not yet received by the hot-reload task
    writes,       \* number of events the watcher has produced
    rlPc,         \* position of run_hot_reload
    rlNew,        \* the registry reload_registry built, until it is swapped in
    rlLast,       \* how the last reload_registry ended: none / ok / err
    rlCancel,     \* the hot-reload task's cancellation token is tripped
    readers,      \* sessions holding a read guard of the registry lock
    sessPc,       \* per session: position inside list_tools / call_tool
    sessPtr,      \* per session: generation found when the guard was acquired
    sessSeen,     \* per session: generations the current call has read
    peers,        \* the shared peers vec, in push order
    peerLive,     \* per session: its peer's transport is open
    notified      \* per session: tools-list-changed notifications received

reloadVars == <<current, file, events, writes, rlPc, rlNew, rlLast, rlCancel, readers,
                sessPc, sessPtr, sessSeen, peers, peerLive, notified>>

VARIABLES
    \* ---- building and using a registry (src/src/registry.rs) ----
    config,       \* the PorterConfig handed to from_config
    fcPc,         \* position of from_config: none/validate/build/ok/err
    fcTodoS,      \* keys of config.servers from_config has not yet visited
    fcTodoC,      \* keys of config.cli from_config has not yet visited
    fcResult,     \* the error from_config returned
    regServers,   \* registry.servers: slug -> what its handle shows
    regCli,       \* registry.cli_handles: slug -> the handle
    started,      \* tasks started by from_config and still running
    listing,      \* the latest registry.tools() call
    routed        \* the latest registry.call_tool call

regVars == <<config, fcPc, fcTodoS, fcTodoC, fcResult, regServers, regCli, started,
             listing, routed>>

VARIABLES
    \* ---- the registry value itself (src/src/registry.rs) ----
    dropped       \* the PorterRegistry was dropped without shutdown()

dropVars == <<dropped>>

VARIABLES
    \* ---- background discovery of one CLI handle (src/src/cli) ----
    dIn,          \* the handle's config: help tree, profile, max_depth, budget
    dRun,         \* discover_subcommands: pc, queue, paths, errors, clock, ran
    dTools,       \* the handle's tool list (Arc<RwLock<Vec<Tool>>>)
    dEnrich,      \* leaf paths whose enrichment task has not finished
    dSnap,        \* what the latest tools() of the handle returned
    dCall         \* the latest call_tool of the handle

discVars == <<dIn, dRun, dTools, dEnrich, dSnap, dCall>>

\* what the background task of a handle leaves alone
dUser == <<dSnap, dCall>>

VARIABLES
    \* ---- the stdout filter task of one subprocess (src/src/server/stdio.rs) ----
    fLines,       \* the lines the subprocess writes to its stdout
    fPos,         \* how many of them next_line() has consumed
    fDelivered,   \* the lines written to the duplex stream, in order
    fEnd,         \* open, or why the task left its loop: eof / error / cancel
    fCancel       \* the token handed to the filter is tripped

filterVars == <<fLines, fPos, fDelivered, fEnd, fCancel>>

VARIABLES
    \* ---- construction of one CLI handle (src/src/cli/harness.rs) ----
    mIn,          \* the CliServerConfig handed to spawn_cli_server
    mOut          \* the expansion mode chosen and what spawn_cli_server returned

modeVars == <<mIn, mOut>>

VARIABLES
    \* ---- the help subprocesses of one fan-out (src/src/cli) ----
    fanKind,      \* which fan-out: a discovery tier or schema enrichment
    fanWaiting,   \* spawned tasks that have not acquired a permit yet
    fanRunning,   \* tasks holding a permit whose subprocess is running
    fanLeft       \* subprocesses still running after their invocation timed out

fanVars == <<fanKind, fanWaiting, fanRunning, fanLeft>>

VARIABLES
    \* ---- one subprocess of CliHandle::call_tool and its two pipes ----
    oScript,      \* the writes the subprocess has still to do, then it exits
    oOut,         \* bytes buffered in the stdout pipe
    oErr,         \* bytes buffered in the stderr pipe
    oChild,       \* the subprocess: running / exited / killed
    oRead,        \* where call_tool is: stdout / stderr / wait / done / timeout
    oGot          \* the bytes call_tool has read: [out, err]

drainVars == <<oScript, oOut, oErr, oChild, oRead, oGot>>

vars == <<cliVars, supVars, callVars, histVars, reloadVars, regVars, dropVars,
          discVars, filterVars, modeVars, fanVars, drainVars>>

\* what the actions of one subsystem leave alone
cliOthers == <<supVars, callVars, histVars, reloadVars, regVars, dropVars, discVars,
               filterVars,
    modeVars, fanVars, drainVars>>
supOthers == <<cliVars, reloadVars, regVars, dropVars, discVars, filterVars,
    modeVars, fanVars, drainVars>>

reloadOthers == <<cliVars, supVars, callVars, histVars, regVars, dropVars,
                  discVars, filterVars,
    modeVars, fanVars, drainVars>>

regOthers == <<cliVars, supVars, callVars, histVars, reloadVars, dropVars,
               discVars, filterVars,
    modeVars, fanVars, drainVars>>

discOthers == <<cliVars, supVars, callVars, histVars, reloadVars, regVars, dropVars,
                filterVars,
    modeVars, fanVars, drainVars>>

filterOthers == <<cliVars, supVars, callVars, histVars, reloadVars, regVars, dropVars,
                  discVars,
    modeVars, fanVars, drainVars>>

modeOthers == <<cliVars, supVars, callVars, histVars, reloadVars, regVars, dropVars,
                discVars, filterVars, fanVars, drainVars>>

fanOthers == <<cliVars, supVars, callVars, histVars, reloadVars, regVars, dropVars,
               discVars, filterVars, modeVars, drainVars>>

drainOthers == <<cliVars, supVars, callVars, histVars, reloadVars, regVars, dropVars,
                 discVars, filterVars, modeVars, fanVars>>

-----------------------------------------------------------------------------
(* Character-sequence helpers.                                             *)

SP == " "
US == "_"
HY == "-"

\* str::starts_with
StartsWith(s, p) == Len(p) <= Len(s) /\ SubSeq(s, 1, Len(p)) = p

\* [&str]::join(" ")
RECURSIVE JoinSp(_)
JoinSp(args) ==
    IF Len(args) = 0 THEN <<>>
    ELSE IF Len(args) = 1 THEN args[1]
    ELSE args[1] \o <<SP>> \o JoinSp(Tail(args))

\* str::find("__"): the 1-based index of the first "__", 0 when absent
RECURSIVE FindDD(_, _)
FindDD(s, i) ==
    IF i + 1 > Len(s) THEN 0
    ELSE IF s[i] = US /\ s[i + 1] = US THEN i
    ELSE FindDD(s, i + 1)

\* str::split('_'): the empty string gives one empty token
RECURSIVE SplitUS(_, _)
SplitUS(s, acc) ==
    IF Len(s) = 0 THEN <<acc>>
    ELSE IF Head(s) = US THEN <<acc>> \o SplitUS(Tail(s), <<>>)
    ELSE SplitUS(Tail(s), Append(acc, Head(s)))

\* str::replace('_', "-")
ReplaceUS(s) == [i \in 1..Len(s) |-> IF s[i] = US THEN HY ELSE s[i]]

-----------------------------------------------------------------------------
(* Access guard: src/src/cli/access_guard.rs                               *)

\* subcommand tokens: get, list (read verbs), rm (a write verb), config, view
TokG == <<"g">>
TokL == <<"l">>
TokR == <<"r">>
TokC == <<"c">>
TokV == <<"v">>

\* KubectlProfile::is_read_only with read_only_set = {get, config}
KubectlReadOnly(args) ==
    IF Len(args) = 0 THEN FALSE
    ELSE IF args[1] = TokC THEN Len(args) >= 2 /\ args[2] = TokV
    ELSE args[1] = TokG

\* The read-only oracles a guard can carry.  "none" is is_read_only_fn = None;
\* the others are closures over the args slice.
Oracles == {"none", "all_read", "all_write", "first_a_read"}

IsReadOnly(oracle, args) ==
    CASE oracle = "all_read" -> TRUE
      [] oracle = "all_write" -> FALSE
      [] oracle = "first_a_read" -> Len(args) > 0 /\ args[1] = <<"a">>
      [] oracle = "kubectl" -> KubectlReadOnly(args)
      [] OTHER -> TRUE

GuardOk == [kind |-> "Ok"]

WriteHint(command, path) ==
    [prefix |-> "Command blocked: ", command |-> command, path |-> path,
     suffix |-> " is a write operation. Enable write_access in config to allow."]

\* Step 1 of check: some deny prefix is a prefix of the joined path
DenyMatches(g, path) == \E d \in g.deny : StartsWith(path, d)

WriteBlockedUnlessListed(g, args, path) ==
    /\ g.is_read_only_fn # "none"
    /\ ~IsReadOnly(g.is_read_only_fn, args)
    /\ ~(\E p \in DOMAIN g.write_access : StartsWith(path, p))

\* Step 2 of check: an oracle says write and no (prefix, true) opt-in matches
WriteBlocked(g, args, path) ==
    /\ g.is_read_only_fn # "none"
    /\ ~IsReadOnly(g.is_read_only_fn, args)
    /\ ~(\E p \in DOMAIN g.write_access :
            g.write_access[p] /\ StartsWith(path, p))

\* Step 3 of check: non-empty allow list without a matching prefix
AllowMisses(g, path) ==
    /\ g.allow # {}
    /\ ~(\E a \in g.allow : StartsWith(path, a))

CheckAllowFirst(g, command, args) ==
    LET path == JoinSp(args) IN
    IF AllowMisses(g, path) THEN [kind |-> "NotInAllowList", subcommand |-> path]
    ELSE IF g.allow # {} THEN GuardOk
    ELSE IF DenyMatches(g, path) THEN [kind |-> "ExplicitDeny", subcommand |-> path]
    ELSE IF WriteBlocked(g, args, path)
         THEN [kind |-> "WriteBlocked", subcommand |-> path,
               hint |-> WriteHint(command, path)]
    ELSE GuardOk

\* AccessGuard::check
Check(g, command, args) ==
    LET path == JoinSp(args) IN
    IF DenyMatches(g, path) THEN [kind |-> "ExplicitDeny", subcommand |-> path]
    ELSE IF WriteBlocked(g, args, path)
         THEN [kind |-> "WriteBlocked", subcommand |-> path,
               hint |-> WriteHint(command, path)]
    ELSE IF AllowMisses(g, path) THEN [kind |-> "NotInAllowList", subcommand |-> path]
    ELSE GuardOk

-----------------------------------------------------------------------------
(* Inputs of the access guard and the CLI handle.                          *)

MaxArgs == 2

Tokens == {<<"a">>, <<"b">>, <<"a", "b">>}

ArgLists == UNION {[1..k -> Tokens] : k \in 0..MaxArgs}

PrefixStrs == {<<"a">>, <<"b">>, <<"a", SP, "b">>}

WritePrefixes == {<<"b">>, <<"a", SP, "b">>}

WriteMaps == UNION {[D -> BOOLEAN] : D \in SUBSET WritePrefixes}

\* AccessGuard::new / with_read_only_checker over every drawn configuration
Guards ==
    [allow : SUBSET PrefixStrs, deny : SUBSET PrefixStrs,
     write_access : WriteMaps, is_read_only_fn : Oracles]

Command == "cmd"

\* params.arguments = None
NoArguments == [present |-> FALSE, positional |-> <<>>, flags |-> <<>>]

NoCheck == [kind |-> "none"]
NoOutcome == [kind |-> "none"]

-----------------------------------------------------------------------------
(* SpecGuard: AccessGuard::check as a function of configuration and args.  *)

GuardInputs ==
    /\ guard \in Guards
    /\ cliArgs \in ArgLists
    /\ cliCheck = NoCheck
    /\ cliExpanded = FALSE
    /\ cliInject = <<>>
    /\ cliPc = "guard"
    /\ cliParams = [name |-> <<>>, arguments |-> NoArguments]
    /\ cliLog = <<>>
    /\ cliChild = "none"
    /\ cliOutcome = NoOutcome

GuardCheck ==
    /\ cliPc = "guard"
    /\ cliCheck = NoCheck
    /\ cliCheck' = Check(guard, Command, cliArgs)
    /\ UNCHANGED <<guard, cliExpanded, cliInject, cliPc, cliParams, cliArgs,
                   cliLog, cliChild, cliOutcome>>
    /\ UNCHANGED cliOthers

NextGuard == GuardCheck

\* C1: deny dominates.  Whenever check has been evaluated and some deny
\* prefix is a string prefix of the space-joined args, the result is
\* ExplicitDeny, whatever the allow list, the write_access map and the
\* oracle are.
C1_DenyDominates ==
    (cliCheck # NoCheck /\ \E d \in guard.deny : StartsWith(JoinSp(cliArgs), d))
        => cliCheck.kind = "ExplicitDeny"

\* C1 witness: a denied path that the allow list also matches, under a guard
\* that carries an oracle and a write opt-in.
C1_Witness ==
    /\ cliCheck # NoCheck
    /\ cliCheck.kind = "ExplicitDeny"
    /\ \E d \in guard.deny : StartsWith(JoinSp(cliArgs), d)
    /\ \E a \in guard.allow : StartsWith(JoinSp(cliArgs), a)
    /\ guard.is_read_only_fn = "all_write"
    /\ \E p \in DOMAIN guard.write_access : guard.write_access[p]

-----------------------------------------------------------------------------
(* CLI handle: src/src/cli/harness.rs                                      *)

\* JSON values of params.arguments: [t, v] with v the text of the value
JStr(v) == [t |-> "str", v |-> v]
JTrue == [t |-> "true", v |-> <<"t", "r", "u", "e">>]
JFalse == [t |-> "false", v |-> <<"f", "a", "l", "s", "e">>]
JNull == [t |-> "null", v |-> <<"n", "u", "l", "l">>]
JNum1 == [t |-> "num", v |-> <<"1">>]

FlagKey == <<"f", US, "g">>

\* params.arguments: None, or the "args" array and the other keys in the
\* map's iteration order
ArgumentsSet ==
    {NoArguments} \cup
    [present : {TRUE},
     positional : {<<>>, <<JStr(<<"a">>)>>, <<JStr(<<"b">>), JNum1>>},
     flags : {<<>>, <<[key |-> FlagKey, value |-> JTrue]>>,
              <<[key |-> FlagKey, value |-> JFalse]>>,
              <<[key |-> FlagKey, value |-> JStr(<<"b">>)]>>,
              <<[key |-> FlagKey, value |-> JNum1]>>}]

\* params.name as the registry or a direct caller passes it
CliNames ==
    {<<"a">>, <<"a", US, "b">>, <<"c", US, US, "a", US, "b">>, <<"c", US, US, "b">>}

\* one key of the flag loop of extract_args_from_params
FlagArgs(kv) ==
    LET flag == <<HY, HY>> \o ReplaceUS(kv.key) IN
    CASE kv.value.t = "true" -> <<flag>>
      [] kv.value.t \in {"false", "null"} -> <<>>
      [] kv.value.t = "str" -> <<flag, kv.value.v>>
      [] OTHER -> <<flag, kv.value.v>>

RECURSIVE PositionalArgs(_)
PositionalArgs(vals) ==
    IF vals = <<>> THEN <<>>
    ELSE (IF Head(vals).t = "str" THEN <<Head(vals).v>> ELSE <<>>)
         \o PositionalArgs(Tail(vals))

RECURSIVE AllFlagArgs(_)
AllFlagArgs(kvs) ==
    IF kvs = <<>> THEN <<>> ELSE FlagArgs(Head(kvs)) \o AllFlagArgs(Tail(kvs))

\* extract_args_from_params
ExtractArgs(arguments) ==
    IF ~arguments.present THEN <<>>
    ELSE PositionalArgs(arguments.positional) \o AllFlagArgs(arguments.flags)

\* the text after the first "__" of the tool name, or the whole name
SubcommandEncoded(name) ==
    LET pos == FindDD(name, 1) IN
    IF pos > 0 THEN SubSeq(name, pos + 2, Len(name)) ELSE name

\* args_vec of call_tool: the decoded path prepended when expanded
ArgsVec(expanded, params) ==
    IF expanded
    THEN SplitUS(SubcommandEncoded(params.name), <<>>) \o ExtractArgs(params.arguments)
    ELSE ExtractArgs(params.arguments)

\* The guards a handle is constructed with in SpecCli
CliGuards ==
    [allow : {{}, {<<"a">>}}, deny : {{}, {<<"a", SP, "b">>}},
     write_access : {<<>>, (<<"b">> :> TRUE)},
     is_read_only_fn : {"none", "first_a_read"}]

InjectSets == {<<>>, <<<<HY, HY, "o">>>>}

CliInputs ==
    /\ guard \in CliGuards
    /\ cliExpanded \in BOOLEAN
    /\ cliInject \in InjectSets
    /\ cliPc = "idle"
    /\ cliParams = [name |-> <<>>, arguments |-> NoArguments]
    /\ cliArgs = <<>>
    /\ cliCheck = NoCheck
    /\ cliLog = <<>>
    /\ cliChild = "none"
    /\ cliOutcome = NoOutcome

\* call_tool entry: extract the user args and decode the path
CliBegin(name, arguments) ==
    /\ cliPc = "idle"
    /\ cliParams' = [name |-> name, arguments |-> arguments]
    /\ cliArgs' = ArgsVec(cliExpanded, [name |-> name, arguments |-> arguments])
    /\ cliCheck' = NoCheck
    /\ cliLog' = <<>>
    /\ cliChild' = "none"
    /\ cliOutcome' = NoOutcome
    /\ cliPc' = "check"
    /\ UNCHANGED <<guard, cliExpanded, cliInject>>
    /\ UNCHANGED cliOthers

\* what the access-control step hands on: the denial, or Ok to go on
GuardVerdictIgnored(g, command, args) == GuardOk

GuardVerdict(g, command, args) == Check(g, command, args)

\* self.guard.check(...).map_err(AccessDenied)?
CliGuardStep ==
    /\ cliPc = "check"
    /\ LET r == GuardVerdict(guard, Command, cliArgs) IN
        /\ cliCheck' = r
        /\ cliLog' = Append(cliLog, [ev |-> "check", args |-> cliArgs, kind |-> r.kind])
        /\ IF r.kind = "Ok"
           THEN cliPc' = "spawn" /\ UNCHANGED cliOutcome
           ELSE cliPc' = "idle" /\ cliOutcome' = [kind |-> "AccessDenied", reason |-> r]
    /\ UNCHANGED <<guard, cliExpanded, cliInject, cliParams, cliArgs, cliChild>>
    /\ UNCHANGED cliOthers

\* cmd.args(&args_vec); cmd.args(&self.inject_flags); cmd.spawn()
CliSpawn(ok) ==
    /\ cliPc = "spawn"
    /\ IF ok
       THEN /\ cliLog' = Append(cliLog, [ev |-> "spawn", args |-> cliArgs \o cliInject,
                                         kind |-> "child"])
            /\ cliChild' = "running"
            /\ cliPc' = "wait"
            /\ UNCHANGED cliOutcome
       ELSE /\ cliOutcome' = [kind |-> "InitializationFailed"]
            /\ cliPc' = "idle"
            /\ UNCHANGED <<cliLog, cliChild>>
    /\ UNCHANGED <<guard, cliExpanded, cliInject, cliParams, cliArgs, cliCheck>>
    /\ UNCHANGED cliOthers

\* the select! arm where the pipes are drained and the child has exited
CliChildDone(exitCode, stderrEmpty) ==
    /\ cliPc = "wait"
    /\ cliChild = "running"
    /\ cliChild' = "exited"
    /\ cliOutcome' = [kind |-> "Result",
                      is_error |-> (exitCode # 0 /\ ~stderrEmpty)]
    /\ cliPc' = "idle"
    /\ UNCHANGED <<guard, cliExpanded, cliInject, cliParams, cliArgs, cliCheck, cliLog>>
    /\ UNCHANGED cliOthers

TimedOutChildDetached == "running"

\* let _ = child.kill().await: SIGKILL, then the child is waited for
TimedOutChild == "killed"

\* the select! arm of tokio::time::sleep(self.timeout): kill and CallTimeout
CliTimeout ==
    /\ cliPc = "wait"
    /\ cliChild = "running"
    /\ cliChild' = TimedOutChild
    /\ cliOutcome' = [kind |-> "CallTimeout"]
    /\ cliPc' = "idle"
    /\ UNCHANGED <<guard, cliExpanded, cliInject, cliParams, cliArgs, cliCheck, cliLog>>
    /\ UNCHANGED cliOthers

\* the slug of the expanded handle whose tools are called by path
PathSlug == <<"c">>

\* subcommand paths the expanded handle exposes as tools; parse_subcommands
\* accepts names matching [a-zA-Z][a-zA-Z0-9_-]*
ExposedPaths ==
    { <<<<"a">>>>,
      <<<<"a">>, <<"b">>>>,
      <<<<"a", HY, "b">>>>,
      <<<<"b">>, <<"a", US, "b">>>> }

\* [String]::join("_")
RECURSIVE JoinPath(_)
JoinPath(path) ==
    IF Len(path) = 0 THEN <<>>
    ELSE IF Len(path) = 1 THEN path[1]
    ELSE path[1] \o <<US>> \o JoinPath(Tail(path))

\* the name of the tool of a path, format!("{}__{}", slug, path.join("_")),
\* as a direct caller passes it, or as registry.call_tool passes it on
\* after unnamespace_tool_name
PathToolName(path, direct) ==
    IF direct THEN PathSlug \o <<US, US>> \o JoinPath(path) ELSE JoinPath(path)

NextPath ==
    \/ \E path \in ExposedPaths, direct \in BOOLEAN, a \in ArgumentsSet :
            CliBegin(PathToolName(path, direct), a)
    \/ CliGuardStep
    \/ \E ok \in BOOLEAN : CliSpawn(ok)
    \/ \E code \in {0, 1}, se \in BOOLEAN : CliChildDone(code, se)
    \/ CliTimeout

NextCli ==
    \/ \E n \in CliNames, a \in ArgumentsSet : CliBegin(n, a)
    \/ CliGuardStep
    \/ \E ok \in BOOLEAN : CliSpawn(ok)
    \/ \E code \in {0, 1}, se \in BOOLEAN : CliChildDone(code, se)
    \/ CliTimeout

\* the spawn events of the current call
SpawnEvents == {i \in 1..Len(cliLog) : cliLog[i].ev = "spawn"}

\* C2: no subprocess for a denied call.  Every spawn of a call comes directly
\* after a guard check of that call that returned Ok for exactly the argument
\* list the process is run with before the inject flags, that list being the
\* decoded subcommand path followed by the user args; and a call that returned
\* AccessDenied spawned nothing and has no child.
C2_GuardBeforeSpawn ==
    /\ \A i \in SpawnEvents :
          /\ i > 1
          /\ cliLog[i - 1].ev = "check"
          /\ cliLog[i - 1].kind = "Ok"
          /\ cliLog[i].args = cliLog[i - 1].args \o cliInject
          /\ cliLog[i - 1].args = ArgsVec(cliExpanded, cliParams)
          /\ Check(guard, Command, cliLog[i - 1].args).kind = "Ok"
    /\ cliOutcome.kind = "AccessDenied" => (SpawnEvents = {} /\ cliChild = "none")
    /\ (cliPc \in {"spawn", "wait"} \/ cliChild # "none")
          => Check(guard, Command, ArgsVec(cliExpanded, cliParams)).kind = "Ok"
    /\ (cliCheck # NoCheck /\ cliCheck.kind # "Ok")
          => (cliOutcome.kind = "AccessDenied" /\ cliChild = "none")

\* C2 witness: on an expanded handle one call was denied, and (separately)
\* a subprocess runs with decoded path, user args and inject flags.
C2_WitnessDenied ==
    /\ cliExpanded
    /\ cliOutcome.kind = "AccessDenied"
    /\ Len(cliArgs) > 1

C2_WitnessSpawned ==
    /\ cliExpanded
    /\ cliChild = "running"
    /\ cliInject # <<>>
    /\ cliParams.arguments.present
    /\ Len(cliArgs) > 2
    /\ guard.deny # {}

-----------------------------------------------------------------------------
(* Namespacing: src/src/namespace.rs                                       *)

\* namespace_tool: "{slug}__{name}", and "[via {slug}] " put before a present
\* description.  A description is its leading "[via ..] " prefixes, outermost
\* first, and the text after them.
namespace_tool(slug, tool) ==
    [name |-> slug \o <<US, US>> \o tool.name,
     description |->
        IF tool.description.some
        THEN [some |-> TRUE, via |-> <<slug>> \o tool.description.via,
              text |-> tool.description.text]
        ELSE tool.description]

NamespaceAll(slug, ts) == [i \in 1..Len(ts) |-> namespace_tool(slug, ts[i])]

\* unnamespace_tool_name: split_once("__")
unnamespace_tool_name(namespaced) ==
    LET pos == FindDD(namespaced, 1) IN
    IF pos = 0 THEN [found |-> FALSE, slug |-> <<>>, original |-> <<>>]
    ELSE [found |-> TRUE, slug |-> SubSeq(namespaced, 1, pos - 1),
          original |-> SubSeq(namespaced, pos + 2, Len(namespaced))]

-----------------------------------------------------------------------------
(* Health tracker: src/src/server/health.rs                                *)

WindowSecs == 60
MinSamples == 5
HealthyBelowPct == 5
DegradedUpToPct == 50

\* ErrorRateTracker::prune: pop the front while it is older than the cutoff
RECURSIVE Prune(_, _)
Prune(window, t) ==
    IF window # <<>> /\ Head(window).ts < t - WindowSecs
    THEN Prune(Tail(window), t)
    ELSE window

RecordNothing(window, t, err) == Prune(window, t)

\* record_success / record_error at time t: push the sample, then prune
Record(window, t, err) == Prune(Append(window, [ts |-> t, err |-> err]), t)

ErrorCount(window) == Cardinality({i \in 1..Len(window) : window[i].err})

health_state_strict(window) ==
    LET total == Len(window)
        errors == ErrorCount(window)
    IN  IF total < MinSamples THEN "Starting"
        ELSE IF errors * 100 < HealthyBelowPct * total THEN "Healthy"
        ELSE IF errors * 100 < DegradedUpToPct * total THEN "Degraded"
        ELSE "Unhealthy"

\* ErrorRateTracker::health_state.  errors/total is a correctly rounded f64
\* quotient compared with the literals 0.05 and 0.50; for the window sizes a
\* session can hold the comparisons agree with the exact ones on integers.
health_state(window) ==
    LET total == Len(window)
        errors == ErrorCount(window)
    IN  IF total < MinSamples THEN "Starting"
        ELSE IF errors * 100 < HealthyBelowPct * total THEN "Healthy"
        ELSE IF errors * 100 <= DegradedUpToPct * total THEN "Degraded"
        ELSE "Unhealthy"

-----------------------------------------------------------------------------
(* Supervisor: src/src/server/stdio.rs (run_stdio_server) and              *)
(* src/src/server/http.rs (run_http_server).  The two loops are the same   *)
(* text except for the subprocess, which only the stdio transport has.     *)

MAX_FAILURES == 5
BACKOFF_INITIAL == 1
BACKOFF_MAX == 30
ChannelCap == 32

MaxCalls == 2

Callers == 1..MaxCalls

Slug == <<"s">>

T1 == [name |-> <<"t">>, description |-> [some |-> TRUE, via |-> <<>>, text |-> "d"]]
T2 == [name |-> <<"u">>, description |-> [some |-> FALSE, via |-> <<>>, text |-> ""]]

\* what a backend may answer to list_all_tools
ToolLists == {<<T1>>, <<T1, T2>>}

NoListing == [ok |-> FALSE, tools |-> <<>>]

Range(q) == {q[i] : i \in 1..Len(q)}

Min(a, b) == IF a < b THEN a ELSE b

\* consecutive_failures += 1
BumpFailures(f) == f + 1

BudgetExhaustedLate(f) == f > MAX_FAILURES

\* consecutive_failures >= MAX_FAILURES
BudgetExhausted(f) == f >= MAX_FAILURES

NextBackoffSame(b) == b

\* backoff = min(backoff * 2, BACKOFF_MAX)
NextBackoff(b) == Min(b * 2, BACKOFF_MAX)

\* The supervisor returns: call_rx is dropped, and with it every queued
\* request and its reply sender, so each waiting caller gets
\* "response channel dropped".
RepliesNobody(q) == {}

\* the callers whose response_tx is dropped with the requests still queued:
\* their response_rx.await returns Err
RepliesDropped(q) == Range(q)

DropQueue ==
    /\ call_rx' = <<>>
    /\ callOutcome' = [c \in DOMAIN callOutcome |->
            IF c \in RepliesDropped(call_rx)
            THEN [kind |-> "Protocol", detail |-> "response channel dropped", req |-> 0]
            ELSE callOutcome[c]]
    /\ callPc' = [c \in DOMAIN callPc |->
            IF c \in RepliesDropped(call_rx) THEN "done" ELSE callPc[c]]

\* The failure arm shared by the Err branch and the unexpected-exit block:
\* bump the counter; at the budget publish Unhealthy and return, else publish
\* Degraded and go to the backoff select.
FailureArm ==
    LET f == BumpFailures(consecutive_failures) IN
    /\ consecutive_failures' = f
    /\ owed' = owed + 1
    /\ IF BudgetExhausted(f)
       THEN /\ health' = "Unhealthy"
            /\ supPc' = "exited"
            /\ supExit' = "budget"
            /\ DropQueue
       ELSE /\ health' = "Degraded"
            /\ supPc' = IF cancel THEN "backoff_cancelled" ELSE "backoff"
            /\ UNCHANGED <<supExit, call_rx, callOutcome, callPc>>

\* Top of the loop: publish Starting, then spawn the subprocess (stdio) or
\* build the transport (http) and start the handshake.
SupSpawn ==
    /\ supPc = "start"
    /\ health' = "Starting"
    /\ child' = IF transport = "stdio" THEN "alive" ELSE "none"
    /\ supPc' = "handshake"
    /\ spawnedAfterCancel' = (spawnedAfterCancel \/ cancel)
    /\ UNCHANGED <<transport, consecutive_failures, backoff, tools, error_tracker,
                   session, orphans, cancel, call_rx, cur, supExit>>
    /\ UNCHANGED <<callVars, now, accepted, forwarded, owed, listed, samples, pubAt>>
    /\ UNCHANGED supOthers

\* spawn_stdio_child fails: the Err arm runs with no subprocess
SupSpawnErr ==
    /\ supPc = "start"
    /\ transport = "stdio"
    /\ spawnedAfterCancel' = (spawnedAfterCancel \/ cancel)
    /\ FailureArm
    /\ UNCHANGED <<transport, backoff, tools, error_tracker, session, child,
                   orphans, cancel, cur>>
    /\ UNCHANGED <<callName, callSaw, now, accepted, forwarded, listed, samples, pubAt>>
    /\ UNCHANGED supOthers

\* the handshake completes within its timeout
SupHandshakeOk ==
    /\ supPc = "handshake"
    /\ transport = "stdio" => child = "alive"
    /\ session' = "alive"
    /\ supPc' = "listing"
    /\ listed' = NoListing
    /\ UNCHANGED <<transport, consecutive_failures, backoff, health, tools,
                   error_tracker, child, orphans, cancel, call_rx, cur, supExit>>
    /\ UNCHANGED <<callVars, now, accepted, forwarded, owed, samples, pubAt,
                   spawnedAfterCancel>>
    /\ UNCHANGED supOthers

\* the handshake fails or times out: the Err arm; the Child value is dropped,
\* which does not kill the process
SupHandshakeFail(childDied) ==
    /\ supPc = "handshake"
    /\ child' = "none"
    /\ orphans' = (orphans \/ (child = "alive" /\ ~childDied))
    /\ FailureArm
    /\ UNCHANGED <<transport, backoff, tools, error_tracker, session, cancel, cur>>
    /\ UNCHANGED <<callName, callSaw, now, accepted, forwarded, listed, samples, pubAt,
                   spawnedAfterCancel>>
    /\ UNCHANGED supOthers

KeepBackoff == backoff

\* backoff = BACKOFF_INITIAL after a successful connection
ResetBackoff == BACKOFF_INITIAL

\* peer.list_all_tools() returns; then the counters are reset, Healthy is
\* published and a fresh tracker is created
SupListDone(ok, ts) ==
    /\ supPc = "listing"
    /\ ok => session = "alive"
    /\ IF ok
       THEN /\ tools' = NamespaceAll(Slug, ts)
            /\ listed' = [ok |-> TRUE, tools |-> ts]
       ELSE UNCHANGED <<tools, listed>>
    /\ consecutive_failures' = 0
    /\ backoff' = ResetBackoff
    /\ health' = "Healthy"
    /\ error_tracker' = <<>>
    /\ samples' = <<>>
    /\ pubAt' = -1
    /\ supPc' = "select"
    /\ UNCHANGED <<transport, session, child, orphans, cancel, call_rx, cur, supExit>>
    /\ UNCHANGED <<callVars, now, accepted, forwarded, owed, spawnedAfterCancel>>
    /\ UNCHANGED supOthers

NextRequestNewest(q) == q[Len(q)]

\* rx_guard.recv(): the oldest queued request
NextRequest(q) == Head(q)

\* select! arm maybe_req = rx_guard.recv(), Some(req): hand it to the peer
SupRecv ==
    /\ supPc = "select"
    /\ call_rx # <<>>
    /\ LET r == NextRequest(call_rx) IN
        /\ cur' = r
        /\ call_rx' = SelectSeq(call_rx, LAMBDA x : x # r)
        /\ forwarded' = Append(forwarded, r)
    /\ supPc' = "forwarding"
    /\ UNCHANGED <<transport, consecutive_failures, backoff, health, tools,
                   error_tracker, session, child, orphans, cancel, supExit>>
    /\ UNCHANGED <<callVars, now, accepted, owed, listed, samples, pubAt,
                   spawnedAfterCancel>>
    /\ UNCHANGED supOthers

\* peer.call_tool returns: record the sample, publish the tracker's state and
\* answer on the request's reply channel
SupCallDone(ok) ==
    /\ supPc = "forwarding"
    /\ ok => session = "alive"
    /\ error_tracker' = Record(error_tracker, now, ~ok)
    /\ health' = health_state(error_tracker')
    /\ callOutcome' = [callOutcome EXCEPT ![cur] =
            [kind |-> IF ok THEN "Result" ELSE "Protocol",
             detail |-> "from backend", req |-> cur]]
    /\ callPc' = [callPc EXCEPT ![cur] = "done"]
    /\ cur' = 0
    /\ supPc' = "select"
    /\ samples' = Append(samples, [ts |-> now, err |-> ~ok])
    /\ pubAt' = now
    /\ UNCHANGED <<transport, consecutive_failures, backoff, tools, session, child,
                   orphans, cancel, call_rx, supExit>>
    /\ UNCHANGED <<callName, callSaw, now, accepted, forwarded, owed, listed,
                   spawnedAfterCancel>>
    /\ UNCHANGED supOthers

\* select! arm exit_rx: clear the tool list, then the failure arm
SupExitDetected ==
    /\ supPc = "select"
    /\ session = "ended"
    /\ tools' = <<>>
    /\ session' = "none"
    /\ child' = "none"
    /\ orphans' = (orphans \/ child = "alive")
    /\ FailureArm
    /\ UNCHANGED <<transport, backoff, error_tracker, cancel, cur>>
    /\ UNCHANGED <<callName, callSaw, now, accepted, forwarded, listed, samples, pubAt,
                   spawnedAfterCancel>>
    /\ UNCHANGED supOthers

\* select! arm cancel.cancelled() of the multiplex loop: kill the subprocess
\* (stdio) and return
SupCancelled ==
    /\ supPc = "select"
    /\ cancel
    /\ child' = IF child = "alive" THEN "dead" ELSE child
    /\ supPc' = "exited"
    /\ supExit' = "cancel"
    /\ DropQueue
    /\ UNCHANGED <<transport, consecutive_failures, backoff, health, tools,
                   error_tracker, session, orphans, cancel, cur>>
    /\ UNCHANGED <<callName, callSaw, histVars>>
    /\ UNCHANGED supOthers

\* backoff select!, arm tokio::time::sleep(backoff): double the backoff and
\* loop.  A select! entered with the token already tripped finds the cancel
\* arm ready and the sleep pending ("backoff_cancelled"); a token tripped
\* while the sleep runs can find both arms ready, and select! picks either.
SupBackoffDone ==
    /\ supPc = "backoff"
    /\ backoff' = NextBackoff(backoff)
    /\ owed' = owed - 1
    /\ supPc' = "start"
    /\ UNCHANGED <<transport, consecutive_failures, health, tools, error_tracker,
                   session, child, orphans, cancel, call_rx, cur, supExit>>
    /\ UNCHANGED <<callVars, now, accepted, forwarded, listed, samples, pubAt,
                   spawnedAfterCancel>>
    /\ UNCHANGED supOthers

\* backoff select!, arm cancel.cancelled(): return
SupBackoffCancelled ==
    /\ supPc \in {"backoff", "backoff_cancelled"}
    /\ cancel
    /\ supPc' = "exited"
    /\ supExit' = "cancel"
    /\ DropQueue
    /\ UNCHANGED <<transport, consecutive_failures, backoff, health, tools,
                   error_tracker, session, child, orphans, cancel, cur>>
    /\ UNCHANGED <<callName, callSaw, histVars>>
    /\ UNCHANGED supOthers

\* The session ends on its own: the subprocess exits or closes its stdout,
\* or the remote end closes the HTTP session.
SessionEnds(childDied) ==
    /\ session = "alive"
    /\ session' = "ended"
    /\ child' = IF child = "alive" /\ childDied THEN "dead" ELSE child
    /\ UNCHANGED <<transport, supPc, consecutive_failures, backoff, health, tools,
                   error_tracker, orphans, cancel, call_rx, cur, supExit>>
    /\ UNCHANGED <<callVars, histVars>>
    /\ UNCHANGED supOthers

\* The session was started with serve_with_ct(transport, cancel): once the
\* token is tripped the service loop stops and the session is over.
SessionCancelled ==
    /\ cancel
    /\ session = "alive"
    /\ session' = "ended"
    /\ UNCHANGED <<transport, supPc, consecutive_failures, backoff, health, tools,
                   error_tracker, child, orphans, cancel, call_rx, cur, supExit>>
    /\ UNCHANGED <<callVars, histVars>>
    /\ UNCHANGED supOthers

\* PorterRegistry::shutdown: self.cancel.cancel()
Shutdown ==
    /\ ~cancel
    /\ cancel' = TRUE
    /\ UNCHANGED <<transport, supPc, consecutive_failures, backoff, health, tools,
                   error_tracker, session, child, orphans, call_rx, cur, supExit>>
    /\ UNCHANGED <<callVars, histVars>>
    /\ UNCHANGED supOthers

\* The last Arc<PorterRegistry> goes away without shutdown(): the struct has
\* no Drop impl, so its fields are dropped.  Dropping the ServerHandle drops
\* call_tx, the only sender of the call channel; dropping the
\* CancellationToken does not cancel it.  No call borrows the registry at
\* that point.
RegistryDropped ==
    /\ ~dropped
    /\ ~cancel
    /\ \A c \in Callers : callPc[c] \in {"idle", "done"}
    /\ dropped' = TRUE
    /\ UNCHANGED <<supVars, callVars, histVars, cliVars, reloadVars, regVars, discVars,
                   filterVars, modeVars, fanVars, drainVars>>

\* select! arm maybe_req = rx_guard.recv(), None: every sender is gone and
\* the channel is empty; kill the subprocess (stdio) and return
SupChannelClosed ==
    /\ supPc = "select"
    /\ dropped
    /\ call_rx = <<>>
    /\ child' = IF child = "alive" THEN "dead" ELSE child
    /\ supPc' = "exited"
    /\ supExit' = "closed"
    /\ UNCHANGED <<transport, consecutive_failures, backoff, health, tools,
                   error_tracker, session, orphans, cancel, call_rx, cur>>
    /\ UNCHANGED <<callVars, histVars>>
    /\ UNCHANGED supOthers

-----------------------------------------------------------------------------
(* Registry callers: PorterRegistry::call_tool (src/src/registry.rs) and   *)
(* ServerHandle::call_tool (src/src/server/mod.rs).  The registry holds    *)
(* one protocol backend, slug "s", and no CLI handle.                      *)

NoReply == [kind |-> "none", detail |-> "", req |-> 0]

\* names a caller may present
CallNames == { <<"s", "_", "_", "t">>, <<"x", "_", "_", "t">>, <<"t">> }

HealthCheckSkipped(h) == FALSE

\* handle.health() == HealthState::Unhealthy
RejectsUnhealthy(h) == h = "Unhealthy"

\* registry.call_tool up to the point where it hands the call to the
\* ServerHandle: split the name, find the backend, read its health.
RegCallRoute(c, name) ==
    /\ callPc[c] = "idle"
    /\ callName' = [callName EXCEPT ![c] = name]
    /\ LET un == unnamespace_tool_name(name) IN
        IF ~un.found
        THEN /\ callOutcome' = [callOutcome EXCEPT ![c] =
                    [kind |-> "Protocol", detail |-> "no namespace prefix", req |-> 0]]
             /\ callPc' = [callPc EXCEPT ![c] = "done"]
             /\ UNCHANGED callSaw
        ELSE IF un.slug # Slug
        THEN /\ callOutcome' = [callOutcome EXCEPT ![c] =
                    [kind |-> "Protocol", detail |-> "no server with slug", req |-> 0]]
             /\ callPc' = [callPc EXCEPT ![c] = "done"]
             /\ UNCHANGED callSaw
        ELSE /\ callSaw' = [callSaw EXCEPT ![c] =
                    IF health = "Unhealthy" THEN "Unhealthy" ELSE "other"]
             /\ IF RejectsUnhealthy(health)
                THEN /\ callOutcome' = [callOutcome EXCEPT ![c] =
                            [kind |-> "ServerUnhealthy", detail |-> "server is unhealthy",
                             req |-> 0]]
                     /\ callPc' = [callPc EXCEPT ![c] = "done"]
                ELSE /\ callPc' = [callPc EXCEPT ![c] = "sending"]
                     /\ UNCHANGED callOutcome
    /\ UNCHANGED <<supVars, histVars>>
    /\ UNCHANGED supOthers

\* ServerHandle::call_tool: call_tx.send(request).await, then wait on the
\* one-shot reply channel.  The send fails once the receiver is gone.
RegCallSend(c) ==
    /\ callPc[c] = "sending"
    /\ IF supPc = "exited"
       THEN /\ callOutcome' = [callOutcome EXCEPT ![c] =
                   [kind |-> "ServerUnhealthy", detail |-> "server channel closed",
                    req |-> 0]]
            /\ callPc' = [callPc EXCEPT ![c] = "done"]
            /\ UNCHANGED <<call_rx, accepted>>
       ELSE /\ Len(call_rx) < ChannelCap
            /\ call_rx' = Append(call_rx, c)
            /\ accepted' = Append(accepted, c)
            /\ callPc' = [callPc EXCEPT ![c] = "waiting"]
            /\ UNCHANGED callOutcome
    /\ UNCHANGED <<transport, supPc, consecutive_failures, backoff, health, tools,
                   error_tracker, session, child, orphans, cancel, cur, supExit>>
    /\ UNCHANGED <<callName, callSaw, now, forwarded, owed, listed, samples, pubAt,
                   spawnedAfterCancel>>
    /\ UNCHANGED supOthers

\* time passes
TickSecs == 30
MaxTicks == 3

Tick ==
    /\ now < TickSecs * MaxTicks
    /\ now' = now + TickSecs
    /\ UNCHANGED <<supVars, callVars, accepted, forwarded, owed, listed, samples, pubAt,
                   spawnedAfterCancel>>
    /\ UNCHANGED supOthers

-----------------------------------------------------------------------------
(* Server adapter and hot reload: src/src/standalone/server.rs and         *)
(* src/src/standalone/hot_reload.rs.                                       *)

MaxWrites == 2

\* the connected clients
Sessions == {1, 2}

\* What the config file can hold: two configurations that load, a file that
\* is not TOML, a configuration validate() rejects, a configuration whose
\* CLI handle cannot be built, and no file at all.
FileContents == {"A", "B", "badtoml", "invalid", "clifail", "missing"}

NoRegistry == [gen |-> -1, cfg |-> "none"]

ReloadResultUnvalidated(content) ==
    IF content \in {"missing", "badtoml", "clifail"}
    THEN [ok |-> FALSE, cfg |-> "none"]
    ELSE [ok |-> TRUE, cfg |-> content]

\* reload_registry: read_to_string, toml::from_str, PorterRegistry::from_config
\* (validate, then the servers, then the CLI handles), each with `?`
ReloadResult(content) ==
    IF content = "missing" THEN [ok |-> FALSE, cfg |-> "none"]
    ELSE IF content = "badtoml" THEN [ok |-> FALSE, cfg |-> "none"]
    ELSE IF content = "invalid" THEN [ok |-> FALSE, cfg |-> "none"]
    ELSE IF content = "clifail" THEN [ok |-> FALSE, cfg |-> "none"]
    ELSE [ok |-> TRUE, cfg |-> content]

\* The config file changes and the watcher reports it.
FileWrite(content) ==
    /\ writes < MaxWrites
    /\ file' = content
    /\ events' = Append(events, "event")
    /\ writes' = writes + 1
    /\ UNCHANGED <<current, rlPc, rlNew, rlLast, rlCancel, readers, sessPc, sessPtr,
                   sessSeen, peers, peerLive, notified>>
    /\ UNCHANGED reloadOthers

\* The watcher reports an error instead of an event.
WatchError ==
    /\ writes < MaxWrites
    /\ events' = Append(events, "error")
    /\ writes' = writes + 1
    /\ UNCHANGED <<current, file, rlPc, rlNew, rlLast, rlCancel, readers, sessPc,
                   sessPtr, sessSeen, peers, peerLive, notified>>
    /\ UNCHANGED reloadOthers

\* select! arm rx.recv(): Some(Ok(_)) starts the debounce sleep, Some(Err(e))
\* is logged
RlRecv ==
    /\ rlPc = "wait"
    /\ events # <<>>
    /\ events' = Tail(events)
    /\ rlPc' = IF Head(events) = "event" THEN "debounce" ELSE "wait"
    /\ UNCHANGED <<current, file, writes, rlNew, rlLast, rlCancel, readers, sessPc,
                   sessPtr, sessSeen, peers, peerLive, notified>>
    /\ UNCHANGED reloadOthers

\* select! arm cancel.cancelled()
RlCancelled ==
    /\ rlPc = "wait"
    /\ rlCancel
    /\ rlPc' = "exited"
    /\ UNCHANGED <<current, file, events, writes, rlNew, rlLast, rlCancel, readers,
                   sessPc, sessPtr, sessSeen, peers, peerLive, notified>>
    /\ UNCHANGED reloadOthers

Undrained(q) == q

\* while rx.try_recv().is_ok() {}: what the channel holds afterwards
Drained(q) == <<>>

\* the 100ms sleep ends; while rx.try_recv().is_ok() {} empties the channel
RlDebounced ==
    /\ rlPc = "debounce"
    /\ events' = Drained(events)
    /\ rlPc' = "reload"
    /\ UNCHANGED <<current, file, writes, rlNew, rlLast, rlCancel, readers, sessPc,
                   sessPtr, sessSeen, peers, peerLive, notified>>
    /\ UNCHANGED reloadOthers

\* reload_registry(&config_path).await: Ok goes on to the swap, Err is logged
\* and the loop waits for the next event
RlReload ==
    /\ rlPc = "reload"
    /\ LET r == ReloadResult(file) IN
        IF r.ok
        THEN /\ rlNew' = [gen |-> current.gen + 1, cfg |-> r.cfg]
             /\ rlLast' = "ok"
             /\ rlPc' = "swap"
        ELSE /\ rlNew' = NoRegistry
             /\ rlLast' = "err"
             /\ rlPc' = "wait"
    /\ UNCHANGED <<current, file, events, writes, rlCancel, readers, sessPc, sessPtr,
                   sessSeen, peers, peerLive, notified>>
    /\ UNCHANGED reloadOthers

WriteLockUnguarded == TRUE

\* registry_handle.write().await is granted when no read guard is out
WriteLockFree == readers = {}

\* { let mut guard = registry_handle.write().await; *guard = Arc::new(new) }
RlSwap ==
    /\ rlPc = "swap"
    /\ WriteLockFree
    /\ current' = rlNew
    /\ rlNew' = NoRegistry
    /\ rlPc' = "notify"
    /\ UNCHANGED <<file, events, writes, rlLast, rlCancel, readers, sessPc, sessPtr,
                   sessSeen, peers, peerLive, notified>>
    /\ UNCHANGED reloadOthers

KeepsEveryPeer(ps) == ps

\* notify_peers: live_peers collects, in order, the drained peers whose
\* notify_tool_list_changed returned Ok
live_peers(ps) == SelectSeq(ps, LAMBDA p : peerLive[p])

\* notify_peers: under the peers mutex, notify every peer and keep those
\* whose notification went out
RlNotify ==
    /\ rlPc = "notify"
    /\ peers' = live_peers(peers)
    /\ notified' = [p \in Sessions |->
            IF p \in Range(peers) /\ peerLive[p] THEN notified[p] + 1 ELSE notified[p]]
    /\ rlPc' = "wait"
    /\ UNCHANGED <<current, file, events, writes, rlNew, rlLast, rlCancel, readers,
                   sessPc, sessPtr, sessSeen, peerLive>>
    /\ UNCHANGED reloadOthers

\* on_initialized: self.peers.lock().await.push(peer); the mutex is held by
\* notify_peers only inside RlNotify
SessInitialized(s) ==
    /\ s \notin Range(peers)
    /\ peerLive[s]
    /\ notified[s] = 0
    /\ peers' = Append(peers, s)
    /\ UNCHANGED <<current, file, events, writes, rlPc, rlNew, rlLast, rlCancel,
                   readers, sessPc, sessPtr, sessSeen, peerLive, notified>>
    /\ UNCHANGED reloadOthers

\* the client goes away: its peer's transport is closed
SessClosed(s) ==
    /\ peerLive[s]
    /\ sessPc[s] = "idle"
    /\ peerLive' = [peerLive EXCEPT ![s] = FALSE]
    /\ UNCHANGED <<current, file, events, writes, rlPc, rlNew, rlLast, rlCancel,
                   readers, sessPc, sessPtr, sessSeen, peers, notified>>
    /\ UNCHANGED reloadOthers

\* list_tools / call_tool: let registry = self.registry.read().await; the
\* tokio RwLock queues waiters first-in first-out, so a read that comes
\* while the write of the hot-reload task waits is granted after it
SessAcquire(s) ==
    /\ peerLive[s]
    /\ sessPc[s] = "idle"
    /\ rlPc # "swap"
    /\ readers' = readers \cup {s}
    /\ sessPtr' = [sessPtr EXCEPT ![s] = current.gen]
    /\ sessPc' = [sessPc EXCEPT ![s] = "first"]
    /\ UNCHANGED <<current, file, events, writes, rlPc, rlNew, rlLast, rlCancel,
                   sessSeen, peers, peerLive, notified>>
    /\ UNCHANGED reloadOthers

\* the call reads the registry through the guard: registry.tools() visits
\* the protocol backends and then the CLI handles; registry.call_tool finds
\* the handle and then forwards to it
SessRead(s) ==
    /\ sessPc[s] \in {"first", "second"}
    /\ sessSeen' = [sessSeen EXCEPT ![s] = @ \cup {current.gen}]
    /\ sessPc' = [sessPc EXCEPT ![s] = IF @ = "first" THEN "second" ELSE "return"]
    /\ UNCHANGED <<current, file, events, writes, rlPc, rlNew, rlLast, rlCancel,
                   readers, sessPtr, peers, peerLive, notified>>
    /\ UNCHANGED reloadOthers

\* the handler returns and the read guard is dropped
SessRelease(s) ==
    /\ sessPc[s] = "return"
    /\ readers' = readers \ {s}
    /\ sessPc' = [sessPc EXCEPT ![s] = "idle"]
    /\ sessPtr' = [sessPtr EXCEPT ![s] = -1]
    /\ sessSeen' = [sessSeen EXCEPT ![s] = {}]
    /\ UNCHANGED <<current, file, events, writes, rlPc, rlNew, rlLast, rlCancel,
                   peers, peerLive, notified>>
    /\ UNCHANGED reloadOthers

\* the root token is cancelled (Ctrl-C)
RlShutdown ==
    /\ ~rlCancel
    /\ rlCancel' = TRUE
    /\ UNCHANGED <<current, file, events, writes, rlPc, rlNew, rlLast, readers,
                   sessPc, sessPtr, sessSeen, peers, peerLive, notified>>
    /\ UNCHANGED reloadOthers

\* no adapter: the registry is used as a library
ReloadIdle ==
    /\ current = [gen |-> 0, cfg |-> "A"]
    /\ file = "A"
    /\ events = <<>>
    /\ writes = 0
    /\ rlPc = "wait"
    /\ rlNew = NoRegistry
    /\ rlLast = "none"
    /\ rlCancel = FALSE
    /\ readers = {}
    /\ sessPc = [s \in Sessions |-> "idle"]
    /\ sessPtr = [s \in Sessions |-> -1]
    /\ sessSeen = [s \in Sessions |-> {}]
    /\ peers = <<>>
    /\ peerLive = [s \in Sessions |-> TRUE]
    /\ notified = [s \in Sessions |-> 0]

-----------------------------------------------------------------------------
(* PorterConfig::validate (src/src/config.rs), PorterRegistry::from_config, *)
(* registry.tools() and registry.call_tool over several backends           *)
(* (src/src/registry.rs), spawn_cli_server (src/src/cli/harness.rs).       *)

NoError == [kind |-> "none", slug |-> <<>>, detail |-> ""]

InvalidConfig(slug, detail) == [kind |-> "InvalidConfig", slug |-> slug, detail |-> detail]

DuplicateSlug(slug) == [kind |-> "DuplicateSlug", slug |-> slug, detail |-> ""]

\* the characters of the modelled slugs that char::is_alphanumeric accepts
AlnumChars == {"a", "b", "c", "h", "k", "s", "x"}

\* slug.is_empty() || slug.contains("__")
\*   || !slug.chars().all(|c| c.is_alphanumeric() || c == '-')
SlugInvalid(slug) ==
    \/ Len(slug) = 0
    \/ FindDD(slug, 1) # 0
    \/ \E i \in 1..Len(slug) : ~(slug[i] \in AlnumChars \/ slug[i] = HY)

\* [servers.*] entries: command / url say whether the field is present,
\* envOk whether every env value is a ${VAR} reference
ServerEntry(slug, enabled, tr, command, url, envOk) ==
    [slug |-> slug, enabled |-> enabled, transport |-> tr, command |-> command,
     url |-> url, envOk |-> envOk]

\* the [servers.*] entries configurations are drawn from
ServerPool ==
    << ServerEntry(<<"s">>, TRUE, "stdio", TRUE, FALSE, TRUE),
       ServerEntry(<<"h">>, TRUE, "http", FALSE, TRUE, TRUE),
       ServerEntry(<<"s">>, FALSE, "stdio", TRUE, FALSE, TRUE),
       ServerEntry(<<>>, TRUE, "stdio", TRUE, FALSE, TRUE),
       ServerEntry(<<"a", US, US, "b">>, TRUE, "http", FALSE, TRUE, TRUE),
       ServerEntry(<<"a", US, "b">>, TRUE, "stdio", TRUE, FALSE, TRUE),
       ServerEntry(<<"h">>, TRUE, "cli", TRUE, FALSE, TRUE),
       ServerEntry(<<"h">>, TRUE, "stdio", FALSE, FALSE, TRUE) >>

\* Option<u8>::None for help_depth
NoDepth == -1

\* [cli.*] entries.  help_parses says whether running `command --help`
\* yields a parsable schema; profile is "none" when the field is absent.
CliEntry(slug, enabled, tr, command, profile, expand, depth, override, parses) ==
    [slug |-> slug, enabled |-> enabled, transport |-> tr, command |-> command,
     envOk |-> TRUE, profile |-> profile, expand_subcommands |-> expand,
     help_depth |-> depth, discovery_budget_secs |-> 60,
     schema_override |-> override, help_parses |-> parses]

\* the [cli.*] entries configurations are drawn from
CliPool ==
    << CliEntry(<<"c">>, TRUE, "cli", <<"k">>, "none", "none", NoDepth, TRUE, FALSE),
       CliEntry(<<"x">>, TRUE, "cli", <<"k">>, "none", "none", NoDepth, FALSE, FALSE),
       CliEntry(<<"x">>, TRUE, "cli", <<"k">>, "bogus", "none", NoDepth, TRUE, TRUE),
       CliEntry(<<"x">>, TRUE, "cli", <<"k">>, "none", "true", NoDepth, TRUE, TRUE),
       CliEntry(<<"x">>, TRUE, "cli", <<"k">>, "kubectl", "none", NoDepth, FALSE, TRUE),
       CliEntry(<<"a", US, US, "b">>, TRUE, "cli", <<"k">>, "none", "none", NoDepth, TRUE, TRUE),
       CliEntry(<<>>, TRUE, "cli", <<"k">>, "rg", "true", NoDepth, TRUE, TRUE),
       CliEntry(<<"s">>, FALSE, "cli", <<"k">>, "none", "none", NoDepth, TRUE, TRUE),
       CliEntry(<<"x">>, TRUE, "stdio", <<"k">>, "none", "none", NoDepth, TRUE, TRUE),
       CliEntry(<<"x">>, TRUE, "cli", <<"k">>, "kubectl", "none", 6, TRUE, TRUE) >>

\* keys of the two TOML tables
ServerKeys == {"s1", "s2"}
CliKeys == {"c1", "c2"}

\* the tables of at most two entries of a pool, up to renaming of the keys
Tables(k1, k2, pool) ==
    {<<>>} \cup {(k1 :> pool[i]) : i \in DOMAIN pool}
           \cup {(k1 :> pool[p[1]]) @@ (k2 :> pool[p[2]]) :
                    p \in {q \in (DOMAIN pool) \X (DOMAIN pool) : q[1] <= q[2]}}

Configs == [servers : Tables("s1", "s2", ServerPool), cli : Tables("c1", "c2", CliPool)]

\* the orders in which a HashMap may hand out its entries
Orders(K) == {o \in [1..Cardinality(K) -> K] : \A i, j \in DOMAIN o : o[i] = o[j] => i = j}

\* validate, steps 3 to 5, for one enabled [servers.*] entry
ServerEntryError(e) ==
    IF SlugInvalid(e.slug) THEN InvalidConfig(e.slug, "slug")
    ELSE IF e.transport = "stdio" /\ ~e.command THEN InvalidConfig(e.slug, "command")
    ELSE IF e.transport = "stdio" /\ e.url THEN InvalidConfig(e.slug, "url")
    ELSE IF e.transport = "http" /\ ~e.url THEN InvalidConfig(e.slug, "url")
    ELSE IF e.transport = "http" /\ e.command THEN InvalidConfig(e.slug, "command")
    ELSE IF e.transport = "cli" THEN InvalidConfig(e.slug, "transport")
    ELSE IF ~e.envOk THEN InvalidConfig(e.slug, "env")
    ELSE NoError

\* validate, step 6, for one [cli.*] entry that passed the duplicate check
CliEntryError(e) ==
    IF ~e.enabled THEN NoError
    ELSE IF Len(e.command) = 0 THEN InvalidConfig(e.slug, "command")
    ELSE IF e.transport # "cli" THEN InvalidConfig(e.slug, "transport")
    ELSE IF ~e.envOk THEN InvalidConfig(e.slug, "env")
    ELSE IF e.help_depth # NoDepth /\ e.help_depth > 5
        THEN InvalidConfig(e.slug, "help_depth")
    ELSE IF e.help_depth # NoDepth /\ e.help_depth > 0 /\ e.discovery_budget_secs = 0
        THEN InvalidConfig(e.slug, "discovery_budget_secs")
    ELSE NoError

\* validate, step 6: the [cli.*] entries in iteration order o, seen_slugs
\* holding the slugs inserted so far
RECURSIVE CliScan(_, _, _)
CliScan(cli, o, seen) ==
    IF Len(o) = 0 THEN NoError
    ELSE LET e == cli[Head(o)] IN
         IF e.slug \in seen THEN DuplicateSlug(e.slug)
         ELSE IF CliEntryError(e) # NoError THEN CliEntryError(e)
         ELSE CliScan(cli, Tail(o), seen \cup {e.slug})

\* PorterConfig::validate: the results it can return, one per iteration
\* order of the tables; {NoError} stands for Ok(())
validate(cfg) ==
    LET S == cfg.servers
        dups == {S[k].slug : k \in {k1 \in DOMAIN S :
                    \E k2 \in DOMAIN S : k2 # k1 /\ S[k2].slug = S[k1].slug}}
        bad == {ServerEntryError(S[k]) : k \in {k1 \in DOMAIN S : S[k1].enabled}}
                 \ {NoError}
        seen == {S[k].slug : k \in DOMAIN S}
    IN  IF dups # {} THEN {DuplicateSlug(s) : s \in dups}
        ELSE IF bad # {} THEN bad
        ELSE {CliScan(cfg.cli, o, seen) : o \in Orders(DOMAIN cfg.cli)}

\* profiles::get_profile
KnownProfiles == {"kubectl", "rg"}

ExpandsAlways(p) == TRUE

\* BuiltinProfile::expand_by_default
expand_by_default(p) == p # "rg"

\* BuiltinProfile::read_only_subcommands, as paths of tokens
read_only_subcommands(p) ==
    IF p = "kubectl" THEN << <<<<"g">>>>, <<<<"c">>, <<"v">>>> >> ELSE <<>>

\* a path the background discovery of `k` finds and classifies read-only
DiscoveredPath == << <<"l">> >>

\* [String]::join("_")
RECURSIVE JoinUS(_)
JoinUS(path) ==
    IF Len(path) = 0 THEN <<>>
    ELSE IF Len(path) = 1 THEN path[1]
    ELSE path[1] \o <<US>> \o JoinUS(Tail(path))

\* enum ExpansionMode; depth is NoDepth for the modes that carry none
ExpansionMode(kind, depth) == [kind |-> kind, depth |-> depth]

\* determine_expansion_mode; "Err" stands for Err(InvalidConfig)
determine_expansion_mode(c) ==
    IF c.expand_subcommands = "false" THEN ExpansionMode("SingleTool", NoDepth)
    ELSE IF c.help_depth = 0 THEN ExpansionMode("SingleTool", NoDepth)
    ELSE IF c.help_depth # NoDepth /\ c.help_depth > 0
        THEN ExpansionMode("Discovery", c.help_depth)
    ELSE IF c.help_depth = NoDepth /\ c.profile # "none" /\ expand_by_default(c.profile)
        THEN ExpansionMode("Discovery", 3)
    ELSE IF c.expand_subcommands = "true"
        THEN IF c.profile = "none" THEN ExpansionMode("Err", NoDepth)
             ELSE ExpansionMode("StaticProfile", NoDepth)
    ELSE ExpansionMode("SingleTool", NoDepth)

\* the tool of one expanded subcommand: named "{slug}__{path.join("_")}",
\* described "[via {slug}] {command} {path} ..."; not passed through
\* namespace_tool
ExpandedTool(slug, path) ==
    [name |-> slug \o <<US, US>> \o JoinUS(path),
     description |-> [some |-> TRUE, via |-> <<slug>>, text |-> "ro"]]

\* the single tool of an unexpanded handle: built with the name
\* "{slug}__{command}" and a "[via {slug}] " description, then passed
\* through namespace_tool
SingleTool(slug, command) ==
    namespace_tool(slug,
        [name |-> slug \o <<US, US>> \o command,
         description |-> [some |-> TRUE, via |-> <<slug>>, text |-> "cli"]])

\* spawn_cli_server: the error it returns, or the handle's tool list, its
\* expanded flag and whether it started the background discovery task
spawn_cli_server(c) ==
    LET fail(d) == [err |-> InvalidConfig(c.slug, d), tools |-> <<>>,
                    expanded |-> FALSE, discovery |-> FALSE]
        mode == determine_expansion_mode(c).kind
        subs == IF c.profile = "none" THEN <<>> ELSE read_only_subcommands(c.profile)
        expandedTools == [i \in 1..Len(subs) |-> ExpandedTool(c.slug, subs[i])]
    IN  IF c.profile # "none" /\ c.profile \notin KnownProfiles THEN fail("profile")
        ELSE IF mode = "Err" THEN fail("expand_subcommands")
        ELSE IF mode = "SingleTool"
            THEN IF ~c.schema_override /\ ~c.help_parses THEN fail("help")
                 ELSE [err |-> NoError, tools |-> <<SingleTool(c.slug, c.command)>>,
                       expanded |-> FALSE, discovery |-> FALSE]
        ELSE [err |-> NoError, tools |-> expandedTools, expanded |-> TRUE,
              discovery |-> mode = "Discovery"]

NoCall == [name |-> <<>>, outcome |-> NoError, invoked |-> "none", slug |-> <<>>,
           original |-> <<>>]

NoTools == [pc |-> "idle", todoS |-> {}, todoC |-> {}, result |-> <<>>,
            saw |-> <<>>]

\* no registry is being built or used
RegIdle ==
    /\ config = [servers |-> <<>>, cli |-> <<>>]
    /\ fcPc = "none"
    /\ fcTodoS = {}
    /\ fcTodoC = {}
    /\ fcResult = NoError
    /\ regServers = <<>>
    /\ regCli = <<>>
    /\ started = {}
    /\ listing = NoTools
    /\ routed = NoCall

\* from_config: config.validate()?
FcValidateErr(e) ==
    /\ fcPc = "validate"
    /\ e \in validate(config)
    /\ e # NoError
    /\ fcPc' = "err"
    /\ fcResult' = e
    /\ UNCHANGED <<config, fcTodoS, fcTodoC, regServers, regCli, started, listing, routed>>
    /\ UNCHANGED regOthers

FcValidateOk ==
    /\ fcPc = "validate"
    /\ NoError \in validate(config)
    /\ fcPc' = "build"
    /\ UNCHANGED <<config, fcTodoS, fcTodoC, fcResult, regServers, regCli, started,
                   listing, routed>>
    /\ UNCHANGED regOthers

\* from_config, the loop over config.servers: a disabled entry is skipped,
\* an enabled one gets spawn_stdio_server / spawn_http_server, which starts
\* the supervisor task and returns the handle (Starting, no tools)
FcServer(k) ==
    /\ fcPc = "build"
    /\ k \in fcTodoS
    /\ fcTodoS' = fcTodoS \ {k}
    /\ LET e == config.servers[k] IN
        IF ~e.enabled
        THEN UNCHANGED <<fcPc, fcResult, regServers, started>>
        ELSE IF e.transport = "cli"
        THEN /\ fcPc' = "err"
             /\ fcResult' = InvalidConfig(e.slug, "transport")
             /\ regServers' = <<>>
             /\ UNCHANGED started
        ELSE /\ regServers' = (e.slug :> [health |-> "Starting", tools |-> <<>>])
                                @@ regServers
             /\ started' = started \cup {[task |-> "supervisor", slug |-> e.slug]}
             /\ UNCHANGED <<fcPc, fcResult>>
    /\ UNCHANGED <<config, fcTodoC, regCli, listing, routed>>
    /\ UNCHANGED regOthers

\* from_config, the loop over config.cli: spawn_cli_server(..).await?  On
\* an error the function returns; the handles built so far are dropped and
\* the root token is dropped without being cancelled.
FcCli(k) ==
    /\ fcPc = "build"
    /\ fcTodoS = {}
    /\ k \in fcTodoC
    /\ fcTodoC' = fcTodoC \ {k}
    /\ LET e == config.cli[k]
           r == spawn_cli_server(e)
       IN
        IF ~e.enabled
        THEN UNCHANGED <<fcPc, fcResult, regServers, regCli, started>>
        ELSE IF r.err # NoError
        THEN /\ fcPc' = "err"
             /\ fcResult' = r.err
             /\ regServers' = <<>>
             /\ regCli' = <<>>
             /\ UNCHANGED started
        ELSE /\ regCli' = (e.slug :> [tools |-> r.tools, expanded |-> r.expanded,
                                      command |-> e.command]) @@ regCli
             /\ started' = IF r.discovery
                           THEN started \cup {[task |-> "discovery", slug |-> e.slug]}
                           ELSE started
             /\ UNCHANGED <<fcPc, fcResult, regServers>>
    /\ UNCHANGED <<config, fcTodoS, listing, routed>>
    /\ UNCHANGED regOthers

\* from_config: Ok(PorterRegistry {servers, cli_handles, cancel})
FcDone ==
    /\ fcPc = "build"
    /\ fcTodoS = {}
    /\ fcTodoC = {}
    /\ fcPc' = "ok"
    /\ UNCHANGED <<config, fcTodoS, fcTodoC, fcResult, regServers, regCli, started,
                   listing, routed>>
    /\ UNCHANGED regOthers

\* what a supervisor can have published for its handle: the health watch
\* value and the namespaced tool list
BackendStates(slug) ==
    { [health |-> "Healthy", tools |-> NamespaceAll(slug, <<T1, T2>>)],
      [health |-> "Degraded", tools |-> NamespaceAll(slug, <<T1>>)],
      [health |-> "Unhealthy", tools |-> NamespaceAll(slug, <<T1>>)] }

\* a supervisor task of the built registry moves on and publishes
SupervisorPublishes(slug, st) ==
    /\ fcPc = "ok"
    /\ slug \in DOMAIN regServers
    /\ st \in BackendStates(slug)
    /\ regServers[slug] # st
    /\ regServers' = [regServers EXCEPT ![slug] = st]
    /\ UNCHANGED <<config, fcPc, fcTodoS, fcTodoC, fcResult, regCli, started, listing,
                   routed>>
    /\ UNCHANGED regOthers

\* the background discovery task of a handle merges what it found after
\* the static entries, skipping names already present, and ends
DiscoveryMerges(slug) ==
    /\ fcPc = "ok"
    /\ [task |-> "discovery", slug |-> slug] \in started
    /\ slug \in DOMAIN regCli
    /\ LET t == ExpandedTool(slug, DiscoveredPath)
           old == regCli[slug].tools
       IN regCli' = [regCli EXCEPT ![slug].tools =
                        IF \E i \in 1..Len(old) : old[i].name = t.name
                        THEN old ELSE Append(old, t)]
    /\ started' = started \ {[task |-> "discovery", slug |-> slug]}
    /\ UNCHANGED <<config, fcPc, fcTodoS, fcTodoC, fcResult, regServers, listing, routed>>
    /\ UNCHANGED regOthers

ListsAll(h) == TRUE

\* handle.health() != HealthState::Unhealthy
ListsTools(h) == h # "Unhealthy"

\* registry.tools(): let mut all_tools = Vec::new().  listing and routed
\* keep the latest operation on the registry only.
RegToolsBegin ==
    /\ fcPc = "ok"
    /\ listing.pc \in {"idle", "done"}
    /\ listing' = [pc |-> "visiting", todoS |-> DOMAIN regServers,
                   todoC |-> DOMAIN regCli, result |-> <<>>, saw |-> <<>>]
    /\ routed' = NoCall
    /\ UNCHANGED <<config, fcPc, fcTodoS, fcTodoC, fcResult, regServers, regCli,
                   started>>
    /\ UNCHANGED regOthers

\* registry.tools(), one turn of the loop over self.servers.values()
RegToolsServer(slug) ==
    /\ listing.pc = "visiting"
    /\ slug \in listing.todoS
    /\ LET b == regServers[slug] IN
        listing' = [listing EXCEPT
            !.todoS = @ \ {slug},
            !.saw = Append(@, [kind |-> "server", slug |-> slug,
                               health |-> b.health, tools |-> b.tools]),
            !.result = IF ListsTools(b.health) THEN @ \o b.tools ELSE @]
    /\ UNCHANGED <<config, fcPc, fcTodoS, fcTodoC, fcResult, regServers, regCli,
                   started, routed>>
    /\ UNCHANGED regOthers

\* registry.tools(), one turn of the loop over self.cli_handles.values()
RegToolsCli(slug) ==
    /\ listing.pc = "visiting"
    /\ listing.todoS = {}
    /\ slug \in listing.todoC
    /\ LET h == regCli[slug] IN
        listing' = [listing EXCEPT
            !.todoC = @ \ {slug},
            !.saw = Append(@, [kind |-> "cli", slug |-> slug,
                               health |-> "Healthy", tools |-> h.tools]),
            !.result = @ \o h.tools]
    /\ UNCHANGED <<config, fcPc, fcTodoS, fcTodoC, fcResult, regServers, regCli,
                   started, routed>>
    /\ UNCHANGED regOthers

\* registry.tools() returns all_tools
RegToolsEnd ==
    /\ listing.pc = "visiting"
    /\ listing.todoS = {}
    /\ listing.todoC = {}
    /\ listing' = [listing EXCEPT !.pc = "done"]
    /\ UNCHANGED <<config, fcPc, fcTodoS, fcTodoC, fcResult, regServers, regCli,
                   started, routed>>
    /\ UNCHANGED regOthers

\* names presented to registry.call_tool
RegNames ==
    { <<"t">>,
      <<"s", US, US, "t">>,
      <<"h", US, US, "t", US, US, "u">>,
      <<"c", US, US, "c", US, US, "k">>,
      <<"x", US, US, "c", US, "v">>,
      <<"a", US, US, "b", US, US, "a", US, US, "b", US, US, "k">>,
      <<"b", US, US, "t">>,
      <<US, US, US, US, "k">> }

ForwardedNamespaced(name, un) == name

\* CallToolRequestParams {name: original_name.to_string().into(), ..}
ForwardedName(name, un) == un.original

\* registry.call_tool: split the name, look the slug up in cli_handles, then
\* in servers, refuse an Unhealthy server, else call the handle
RegCall(name) ==
    /\ fcPc = "ok"
    /\ listing.pc \in {"idle", "done"}
    /\ listing' = NoTools
    /\ LET un == unnamespace_tool_name(name) IN
        routed' =
            IF ~un.found
            THEN [name |-> name, invoked |-> "none", slug |-> <<>>, original |-> <<>>,
                  outcome |-> [kind |-> "Protocol", slug |-> <<"u", "n", "k", "n", "o", "w", "n">>,
                               detail |-> "no namespace prefix"]]
            ELSE IF un.slug \in DOMAIN regCli
            THEN [name |-> name, invoked |-> "cli", slug |-> un.slug,
                  original |-> ForwardedName(name, un), outcome |-> NoError]
            ELSE IF un.slug \notin DOMAIN regServers
            THEN [name |-> name, invoked |-> "none", slug |-> <<>>, original |-> <<>>,
                  outcome |-> [kind |-> "Protocol", slug |-> un.slug,
                               detail |-> "no server with slug"]]
            ELSE IF RejectsUnhealthy(regServers[un.slug].health)
            THEN [name |-> name, invoked |-> "none", slug |-> <<>>, original |-> <<>>,
                  outcome |-> [kind |-> "ServerUnhealthy", slug |-> un.slug,
                               detail |-> "server is unhealthy"]]
            ELSE [name |-> name, invoked |-> "server", slug |-> un.slug,
                  original |-> ForwardedName(name, un), outcome |-> NoError]
    /\ UNCHANGED <<config, fcPc, fcTodoS, fcTodoC, fcResult, regServers, regCli,
                   started>>
    /\ UNCHANGED regOthers

-----------------------------------------------------------------------------
(* Background discovery of a CLI handle: discover_subcommands              *)
(* (src/src/cli/discovery.rs) and Phases A, B, C of the Discovery mode of  *)
(* spawn_cli_server (src/src/cli/harness.rs).                              *)

\* what `command prefix.. --help` does: whether it could be run and parsed,
\* the subcommand names parse_subcommands finds, and how long it takes
HelpOut(ok, subs, dur) == [ok |-> ok, subs |-> subs, dur |-> dur]

\* The help trees discovery is run on.  A prefix that is not listed prints a
\* help text without subcommands and takes one second.
HelpTrees ==
    << \* get {list} / config {view {get}, list} / rm (whose --help times out)
       (<<>> :> HelpOut(TRUE, <<TokG, TokC, TokR>>, 1))
         @@ (<<TokG>> :> HelpOut(TRUE, <<TokL>>, 1))
         @@ (<<TokC>> :> HelpOut(TRUE, <<TokV, TokL>>, 2))
         @@ (<<TokC, TokV>> :> HelpOut(TRUE, <<TokG>>, 1))
         @@ (<<TokR>> :> HelpOut(FALSE, <<>>, 3)),
       \* the command cannot be run
       (<<>> :> HelpOut(FALSE, <<>>, 1)),
       \* a help text without a commands section
       (<<>> :> HelpOut(TRUE, <<>>, 1)),
       \* a command listed twice, a chain four levels deep
       (<<>> :> HelpOut(TRUE, <<TokL, TokL, TokG>>, 2))
         @@ (<<TokL>> :> HelpOut(TRUE, <<TokG>>, 1))
         @@ (<<TokL, TokG>> :> HelpOut(TRUE, <<TokL>>, 2))
         @@ (<<TokL, TokG, TokL>> :> HelpOut(TRUE, <<TokV>>, 1)) >>

\* config.timeout_per_help, in seconds
TimeoutPerHelp == 3

\* run_help_and_parse: the subprocess is raced against timeout_per_help; an
\* elapsed timeout and a failure to spawn are the two Err reasons, and an
\* invocation never takes longer than the timeout
run_help_and_parse(tree, prefix) ==
    LET h == IF prefix \in DOMAIN tree THEN tree[prefix] ELSE HelpOut(TRUE, <<>>, 1)
    IN IF h.dur >= TimeoutPerHelp
       THEN [ok |-> FALSE, subs |-> <<>>, dur |-> TimeoutPerHelp,
             reason |-> "--help timed out"]
       ELSE IF ~h.ok
       THEN [ok |-> FALSE, subs |-> <<>>, dur |-> h.dur,
             reason |-> "failed to spawn"]
       ELSE [ok |-> TRUE, subs |-> h.subs, dur |-> h.dur, reason |-> "none"]

MaxTreeDepth == 3
MaxBudget == 4

DiscoveredPathOf(path, leaf) == [path |-> path, is_leaf |-> leaf]

ChildNeverLeaf(depth, d) == FALSE

\* depth + 1 < config.max_depth fails: the child is at the depth limit
ChildIsLeaf(depth, d) == ~(depth + 1 < d)

\* the loop `for sub in subcommands` of one tier entry
RECURSIVE Children(_, _, _, _, _)
Children(d, prefix, depth, subs, acc) ==
    IF Len(subs) = 0 THEN acc
    ELSE LET child_path == Append(prefix, Head(subs))
             next == IF ChildIsLeaf(depth, d)
                     THEN [acc EXCEPT !.paths =
                                Append(@, DiscoveredPathOf(child_path, TRUE))]
                     ELSE [acc EXCEPT
                            !.queue = Append(@, [prefix |-> child_path,
                                                 depth |-> depth + 1]),
                            !.paths = Append(@, DiscoveredPathOf(child_path, FALSE))]
         IN Children(d, prefix, depth, Tail(subs), next)

ErrorDropped(acc, prefix, reason) == acc

\* all_errors.push((prefix, reason))
SoftError(acc, prefix, reason) ==
    [acc EXCEPT !.errors = Append(@, <<prefix, reason>>)]

\* the loop `for handle in handles` of one tier: the results are collected
\* in the order of the tier
RECURSIVE Collect(_, _, _, _)
Collect(tree, d, tier, acc) ==
    IF Len(tier) = 0 THEN acc
    ELSE LET e == Head(tier)
             r == run_help_and_parse(tree, e.prefix)
             ran == [acc EXCEPT !.ran = Append(@, e.prefix)]
             next ==
                IF ~r.ok THEN SoftError(ran, e.prefix, r.reason)
                ELSE IF Len(r.subs) = 0
                THEN IF Len(e.prefix) # 0
                     THEN [ran EXCEPT !.paths =
                                Append(@, DiscoveredPathOf(e.prefix, TRUE))]
                     ELSE ran
                ELSE Children(d, e.prefix, e.depth, r.subs, ran)
         IN Collect(tree, d, Tail(tier), next)

\* the wall-clock time of one tier: its invocations run concurrently, at
\* most eight at a time, and no tier here has more than eight
RECURSIVE TierTime(_, _)
TierTime(tree, tier) ==
    IF Len(tier) = 0 THEN 0
    ELSE LET t == run_help_and_parse(tree, Head(tier).prefix).dur
             u == TierTime(tree, Tail(tier))
         IN IF t > u THEN t ELSE u

NoRun == [pc |-> "idle", queue |-> <<>>, paths |-> <<>>, errors |-> <<>>,
          timed_out |-> FALSE, clock |-> 0, ran |-> <<>>]

\* discover_subcommands up to the while loop
DiscoverEntry(d) ==
    IF d = 0 THEN [NoRun EXCEPT !.pc = "returned"]
    ELSE [NoRun EXCEPT !.pc = "bfs", !.queue = <<[prefix |-> <<>>, depth |-> 0]>>]

DeadlineNotReached(clock, budget) == clock < budget

\* Instant::now() >= deadline
DeadlinePassed(clock, budget) == clock >= budget

\* one turn of `while !queue.is_empty()`, or the end of the loop
TierStep(tree, d, budget, run) ==
    IF Len(run.queue) = 0 THEN [run EXCEPT !.pc = "returned"]
    ELSE IF DeadlinePassed(run.clock, budget)
    THEN [run EXCEPT !.pc = "returned", !.timed_out = TRUE]
    ELSE LET acc == Collect(tree, d, run.queue, [run EXCEPT !.queue = <<>>])
         IN [acc EXCEPT !.clock = @ + TierTime(tree, run.queue)]

\* discover_subcommands as a function of the tree, max_depth and the budget
RECURSIVE DiscoverFrom(_, _, _, _)
DiscoverFrom(tree, d, budget, run) ==
    IF run.pc = "returned" THEN run
    ELSE DiscoverFrom(tree, d, budget, TierStep(tree, d, budget, run))

discover_subcommands(tree, d, budget) ==
    DiscoverFrom(tree, d, budget, DiscoverEntry(d))

\* the slug and the command of the handle
DSlug == <<"x">>

READ_VERBS == {TokG, TokL}
WRITE_VERBS == {TokR}

\* read_only_heuristic::is_likely_read_only: the tokens from the last to
\* the first, the first verb found decides
RECURSIVE is_likely_read_only(_)
is_likely_read_only(path) ==
    IF Len(path) = 0 THEN FALSE
    ELSE LET token == path[Len(path)] IN
         IF token \in READ_VERBS THEN TRUE
         ELSE IF token \in WRITE_VERBS THEN FALSE
         ELSE is_likely_read_only(SubSeq(path, 1, Len(path) - 1))

\* the filter of Phases B and C: the profile's is_read_only, or the
\* heuristic when no profile is attached
PathIsRead(profile, path) ==
    IF profile = "kubectl" THEN KubectlReadOnly(path) ELSE is_likely_read_only(path)

\* Phase A: one tool per entry of the profile's read_only_subcommands
StaticTool(path) ==
    [name |-> DSlug \o <<US, US>> \o JoinUS(path),
     description |-> [some |-> TRUE, via |-> <<DSlug>>, text |-> "read-only"],
     input_schema |-> "generic"]

initial_tools(profile) ==
    IF profile = "none" THEN <<>>
    ELSE LET subs == read_only_subcommands(profile)
         IN [i \in 1..Len(subs) |-> StaticTool(subs[i])]

\* Phase B: the tool of a discovered path
DiscoveredTool(path) ==
    [name |-> DSlug \o <<US, US>> \o JoinUS(path),
     description |-> [some |-> TRUE, via |-> <<DSlug>>,
                      text |-> "read-only, discovered"],
     input_schema |-> "generic"]

SeenNever(ts, name) == FALSE

\* seen_keys.contains(&tool_name)
Seen(ts, name) == \E i \in 1..Len(ts) : ts[i].name = name

\* Phase B: the accepted paths in discovery order, each added after the
\* tools merged so far unless its name was seen
RECURSIVE merged_tools(_, _, _)
merged_tools(profile, merged, paths) ==
    IF Len(paths) = 0 THEN merged
    ELSE LET dp == Head(paths)
             t == DiscoveredTool(dp.path)
         IN IF PathIsRead(profile, dp.path) /\ ~Seen(merged, t.name)
            THEN merged_tools(profile, Append(merged, t), Tail(paths))
            ELSE merged_tools(profile, merged, Tail(paths))

\* Phase C: the read-only leaf paths
leaf_paths(profile, paths) ==
    {paths[i].path : i \in {j \in 1..Len(paths) :
                                paths[j].is_leaf /\ PathIsRead(profile, paths[j].path)}}

\* tools_guard.iter_mut().find(|t| t.name == tool_name)
FirstNamed(ts, name) ==
    IF Seen(ts, name) THEN CHOOSE i \in 1..Len(ts) :
            ts[i].name = name /\ \A j \in 1..(i - 1) : ts[j].name # name
    ELSE 0

NoDiscCall == [name |-> <<>>, args |-> <<>>, verdict |-> "none", spawned |-> FALSE]

\* no handle is discovering
DiscIdle ==
    /\ dIn = [tree |-> 0, profile |-> "none", max_depth |-> 0, budget |-> 0]
    /\ dRun = NoRun
    /\ dTools = <<>>
    /\ dEnrich = {}
    /\ dSnap = <<>>
    /\ dCall = NoDiscCall

\* spawn_cli_server in Discovery mode has returned the handle: the tool
\* list holds the profile's static entries, the background task is spawned
DiscInputs ==
    /\ dIn \in [tree : 1..Len(HelpTrees), profile : {"none", "kubectl"},
                max_depth : 0..MaxTreeDepth, budget : 0..MaxBudget]
    /\ dRun = NoRun
    /\ dTools = initial_tools(dIn.profile)
    /\ dEnrich = {}
    /\ dSnap = <<>>
    /\ dCall = NoDiscCall

\* the background task calls discover_subcommands
DiscStart ==
    /\ dRun.pc = "idle"
    /\ dIn.tree # 0
    /\ dRun' = DiscoverEntry(dIn.max_depth)
    /\ UNCHANGED <<dIn, dTools, dEnrich>>
    /\ UNCHANGED dUser
    /\ UNCHANGED discOthers

\* discover_subcommands: one tier, or the end of the loop
DiscTier ==
    /\ dRun.pc = "bfs"
    /\ dRun' = TierStep(HelpTrees[dIn.tree], dIn.max_depth, dIn.budget, dRun)
    /\ UNCHANGED <<dIn, dTools, dEnrich>>
    /\ UNCHANGED dUser
    /\ UNCHANGED discOthers

\* Phase B: filter, merge and write the tool list; then Phase C spawns one
\* enrichment task per read-only leaf path
DiscMerge ==
    /\ dRun.pc = "returned"
    /\ dTools' = merged_tools(dIn.profile, dTools, dRun.paths)
    /\ dEnrich' = leaf_paths(dIn.profile, dRun.paths)
    /\ dRun' = [dRun EXCEPT !.pc = "enrich"]
    /\ UNCHANGED dIn
    /\ UNCHANGED dUser
    /\ UNCHANGED discOthers

\* Phase C, one enrichment task: parse_help_output for the path; on Ok the
\* first tool of that name gets the parsed schema
DiscEnrich(path, ok) ==
    /\ dRun.pc = "enrich"
    /\ path \in dEnrich
    /\ dEnrich' = dEnrich \ {path}
    /\ LET i == FirstNamed(dTools, DSlug \o <<US, US>> \o JoinUS(path)) IN
        dTools' = IF ok /\ i # 0
                  THEN [dTools EXCEPT ![i].input_schema = "enriched"]
                  ELSE dTools
    /\ UNCHANGED <<dIn, dRun>>
    /\ UNCHANGED dUser
    /\ UNCHANGED discOthers

EnrichmentIgnored == TRUE

\* `for h in enrich_handles { h.await }` has ended
AllEnriched == dEnrich = {}

\* every enrichment task was awaited: discovery_in_progress.store(false)
DiscFinish ==
    /\ dRun.pc = "enrich"
    /\ AllEnriched
    /\ dRun' = [dRun EXCEPT !.pc = "done"]
    /\ UNCHANGED <<dIn, dTools, dEnrich>>
    /\ UNCHANGED dUser
    /\ UNCHANGED discOthers

\* The handle's discovery_in_progress flag: set at construction, cleared by
\* the last statement of the background task.
discovery_in_progress == dRun.pc # "done"

\* CliHandle::tools: a clone of the list under the read lock
DiscListTools ==
    /\ dIn.tree # 0
    /\ dSnap' = dTools
    /\ UNCHANGED <<dIn, dRun, dTools, dEnrich, dCall>>
    /\ UNCHANGED discOthers

\* the guard spawn_cli_server builds for a config without allow, deny and
\* write_access: the profile's is_read_only if a profile is attached
DiscGuard(profile) ==
    [allow |-> {}, deny |-> {}, write_access |-> <<>>, is_read_only_fn |-> profile]

\* the names call_tool is called with: the tools of four paths of the trees
CallTargets ==
    {DiscoveredTool(path).name :
        path \in {<<TokG>>, <<TokR>>, <<TokC, TokV>>, <<TokC, TokL>>}}

\* CliHandle::call_tool on the expanded handle, without arguments: the path
\* is decoded from the name, the guard checks it, the subprocess is
\* spawned with it
DiscCall(name) ==
    /\ dIn.tree # 0
    /\ LET args == SplitUS(SubcommandEncoded(name), <<>>)
           verdict == Check(DiscGuard(dIn.profile), DSlug, args)
       IN dCall' = [name |-> name, args |-> args, verdict |-> verdict.kind,
                    spawned |-> verdict = GuardOk]
    /\ UNCHANGED <<dIn, dRun, dTools, dEnrich, dSnap>>
    /\ UNCHANGED discOthers

-----------------------------------------------------------------------------
(* The stdout filter: start_stdout_filter (src/src/server/stdio.rs).       *)

\* What one line of the subprocess's stdout can be: a JSON object, a JSON
\* scalar, text that is not JSON, an empty line, bytes that are not UTF-8.
LineKinds == {"object", "scalar", "text", "empty", "binary"}

MaxLines == 3

\* the stdout of a subprocess: at most MaxLines lines, numbered in order
Stdouts ==
    UNION {[1..n -> LineKinds] : n \in 0..MaxLines}

\* lines.next_line() returns Err for a line that is not valid UTF-8
ReadFails(kind) == kind = "binary"

\* serde_json::from_str::<serde_json::Value>(&line).is_ok()
ParsesAsJson(kind) == kind \in {"object", "scalar"}

\* no filter is running
FilterIdle ==
    /\ fLines = <<>>
    /\ fPos = 0
    /\ fDelivered = <<>>
    /\ fEnd = "open"
    /\ fCancel = FALSE

\* start_stdout_filter has spawned the task
FilterInputs ==
    /\ fLines \in Stdouts
    /\ fPos = 0
    /\ fDelivered = <<>>
    /\ fEnd = "open"
    /\ fCancel = FALSE

\* select! arm lines.next_line(), Ok(Some(line)) or Err(_): a line that
\* parses is written with a newline, one that does not is discarded, a read
\* error leaves the loop and the writer is dropped
FilterLine ==
    /\ fEnd = "open"
    /\ fPos < Len(fLines)
    /\ LET n == fPos + 1
           kind == fLines[n]
       IN /\ fPos' = n
          /\ IF ReadFails(kind)
             THEN /\ fEnd' = "error"
                  /\ UNCHANGED fDelivered
             ELSE /\ fDelivered' = IF ParsesAsJson(kind)
                                   THEN Append(fDelivered, [id |-> n, kind |-> kind])
                                   ELSE fDelivered
                  /\ UNCHANGED fEnd
    /\ UNCHANGED <<fLines, fCancel>>
    /\ UNCHANGED filterOthers

\* select! arm lines.next_line(), Ok(None): the subprocess closed its stdout
FilterEof ==
    /\ fEnd = "open"
    /\ fPos = Len(fLines)
    /\ fEnd' = "eof"
    /\ UNCHANGED <<fLines, fPos, fDelivered, fCancel>>
    /\ UNCHANGED filterOthers

\* select! arm cancel.cancelled()
FilterCancelled ==
    /\ fEnd = "open"
    /\ fCancel
    /\ fEnd' = "cancel"
    /\ UNCHANGED <<fLines, fPos, fDelivered, fCancel>>
    /\ UNCHANGED filterOthers

\* the token is tripped
FilterCancel ==
    /\ ~fCancel
    /\ fCancel' = TRUE
    /\ UNCHANGED <<fLines, fPos, fDelivered, fEnd>>
    /\ UNCHANGED filterOthers

-----------------------------------------------------------------------------
(* Construction of one CLI handle: determine_expansion_mode and            *)
(* spawn_cli_server (src/src/cli/harness.rs) over every combination of     *)
(* expand_subcommands, help_depth and profile.                             *)

\* validate() accepts help_depth up to 5
MaxHelpDepth == 5

\* the configurations of one [cli.*] entry that validate() accepts and
\* whose profile, if any, is built in
ModeConfigs ==
    {CliEntry(<<"x">>, TRUE, "cli", <<"k">>, profile, expand, depth, override, parses) :
        profile \in {"none"} \cup KnownProfiles,
        expand \in {"none", "true", "false"},
        depth \in {NoDepth} \cup 0..MaxHelpDepth,
        override \in BOOLEAN,
        parses \in BOOLEAN}

NoMode == [called |-> FALSE]

\* no handle is being constructed
ModeIdle ==
    /\ mIn = CliEntry(<<>>, FALSE, "cli", <<>>, "none", "none", NoDepth, FALSE, FALSE)
    /\ mOut = NoMode

\* spawn_cli_server(config, slug) is about to be called
ModeInputs ==
    /\ mIn \in ModeConfigs
    /\ mOut = NoMode

\* spawn_cli_server: the mode it determines and what it returns
ModeSpawn ==
    /\ ~mOut.called
    /\ mOut' = [called |-> TRUE, mode |-> determine_expansion_mode(mIn),
                handle |-> spawn_cli_server(mIn)]
    /\ UNCHANGED mIn
    /\ UNCHANGED modeOthers

-----------------------------------------------------------------------------
(* The help subprocesses of one fan-out: the tasks of one tier of          *)
(* discover_subcommands (src/src/cli/discovery.rs 88, 105-117, 194-213) or *)
(* the enrichment tasks of Phase C (src/src/cli/harness.rs 692, 711-753,   *)
(* src/src/cli/help_parser.rs 92-119).  Each task acquires a permit, runs  *)
(* one `--help` subprocess under tokio::time::timeout and drops the permit *)
(* when it ends.  No Command sets kill_on_drop, so the subprocess of an    *)
(* invocation that timed out is dropped while it runs and is not killed.   *)

DISCOVERY_PERMITS == 8
ENRICH_PERMITS == 4

\* the most tasks one fan-out spawns
MaxTasks == 9

\* Semaphore::new(8) / Semaphore::new(4)
Permits(kind) ==
    IF kind = "discovery" THEN DISCOVERY_PERMITS
    ELSE IF kind = "enrichment" THEN ENRICH_PERMITS
    ELSE 0

\* no fan-out is under way
FanIdle ==
    /\ fanKind = "none"
    /\ fanWaiting = 0
    /\ fanRunning = 0
    /\ fanLeft = 0

\* the tasks of one tier, or of Phase C, have been spawned
FanInputs ==
    /\ fanKind \in {"discovery", "enrichment"}
    /\ fanWaiting \in 1..MaxTasks
    /\ fanRunning = 0
    /\ fanLeft = 0

\* sem.acquire() returns a permit and the subprocess is spawned
FanAcquire ==
    /\ fanWaiting > 0
    /\ fanRunning < Permits(fanKind)
    /\ fanWaiting' = fanWaiting - 1
    /\ fanRunning' = fanRunning + 1
    /\ UNCHANGED <<fanKind, fanLeft>>
    /\ UNCHANGED fanOthers

\* sem.acquire() returns a permit, the spawn fails, the task ends
FanSpawnFails ==
    /\ fanWaiting > 0
    /\ fanRunning < Permits(fanKind)
    /\ fanWaiting' = fanWaiting - 1
    /\ UNCHANGED <<fanKind, fanRunning, fanLeft>>
    /\ UNCHANGED fanOthers

\* the subprocess exits, its output is read, the task ends and drops the
\* permit
FanExits ==
    /\ fanRunning > 0
    /\ fanRunning' = fanRunning - 1
    /\ UNCHANGED <<fanKind, fanWaiting, fanLeft>>
    /\ UNCHANGED fanOthers

\* the timeout elapses: the future holding the Child is dropped, the task
\* ends and drops the permit; the subprocess goes on running
FanTimesOut ==
    /\ fanRunning > 0
    /\ fanRunning' = fanRunning - 1
    /\ fanLeft' = fanLeft + 1
    /\ UNCHANGED <<fanKind, fanWaiting>>
    /\ UNCHANGED fanOthers

\* a subprocess left behind exits by itself
FanLeftExits ==
    /\ fanLeft > 0
    /\ fanLeft' = fanLeft - 1
    /\ UNCHANGED <<fanKind, fanWaiting, fanRunning>>
    /\ UNCHANGED fanOthers

-----------------------------------------------------------------------------
(* CliHandle::call_tool after the spawn (src/src/cli/harness.rs 124-162):  *)
(* the subprocess writes to two pipes of bounded capacity; call_tool reads *)
(* stdout to its end, then stderr to its end, then waits for the exit, all *)
(* raced against sleep(self.timeout).                                      *)

\* the capacity of a pipe and the most writes of a subprocess, in units of
\* one write
PipeCap == 1
MaxOutput == 4

\* what a subprocess writes before it exits: "out" or "err" per write
Scripts ==
    UNION {[1..n -> {"out", "err"}] : n \in 0..MaxOutput}

NothingRead == [out |-> 0, err |-> 0]

\* no call is under way
DrainIdle ==
    /\ oScript = <<>>
    /\ oOut = 0
    /\ oErr = 0
    /\ oChild = "none"
    /\ oRead = "idle"
    /\ oGot = NothingRead

\* cmd.spawn() succeeded and the pipes were taken; the select! begins
DrainInputs ==
    /\ oScript \in Scripts
    /\ oOut = 0
    /\ oErr = 0
    /\ oChild = "running"
    /\ oRead = "stdout"
    /\ oGot = NothingRead

\* the subprocess's next write would block: the pipe it goes to is full
WriteBlocks ==
    /\ oChild = "running"
    /\ Len(oScript) > 0
    /\ IF Head(oScript) = "out" THEN oOut >= PipeCap ELSE oErr >= PipeCap

\* the subprocess does its next write
ChildWrites ==
    /\ oChild = "running"
    /\ Len(oScript) > 0
    /\ ~WriteBlocks
    /\ oScript' = Tail(oScript)
    /\ oOut' = IF Head(oScript) = "out" THEN oOut + 1 ELSE oOut
    /\ oErr' = IF Head(oScript) = "err" THEN oErr + 1 ELSE oErr
    /\ UNCHANGED <<oChild, oRead, oGot>>
    /\ UNCHANGED drainOthers

\* the subprocess has written everything and exits; its ends of the pipes
\* close
ChildExits ==
    /\ oChild = "running"
    /\ Len(oScript) = 0
    /\ oChild' = "exited"
    /\ UNCHANGED <<oScript, oOut, oErr, oRead, oGot>>
    /\ UNCHANGED drainOthers

\* out.read_to_end(&mut stdout_bytes): bytes arrive
ReadStdout ==
    /\ oRead = "stdout"
    /\ oOut > 0
    /\ oGot' = [oGot EXCEPT !.out = @ + oOut]
    /\ oOut' = 0
    /\ UNCHANGED <<oScript, oErr, oChild, oRead>>
    /\ UNCHANGED drainOthers

\* out.read_to_end returns: the pipe is empty and its write end is closed
StdoutEof ==
    /\ oRead = "stdout"
    /\ oOut = 0
    /\ oChild = "exited"
    /\ oRead' = "stderr"
    /\ UNCHANGED <<oScript, oOut, oErr, oChild, oGot>>
    /\ UNCHANGED drainOthers

\* err.read_to_end(&mut stderr_bytes): bytes arrive
ReadStderr ==
    /\ oRead = "stderr"
    /\ oErr > 0
    /\ oGot' = [oGot EXCEPT !.err = @ + oErr]
    /\ oErr' = 0
    /\ UNCHANGED <<oScript, oOut, oChild, oRead>>
    /\ UNCHANGED drainOthers

\* err.read_to_end returns
StderrEof ==
    /\ oRead = "stderr"
    /\ oErr = 0
    /\ oChild = "exited"
    /\ oRead' = "wait"
    /\ UNCHANGED <<oScript, oOut, oErr, oChild, oGot>>
    /\ UNCHANGED drainOthers

\* child.wait() returns the status; call_tool builds its result
WaitReturns ==
    /\ oRead = "wait"
    /\ oChild = "exited"
    /\ oRead' = "done"
    /\ UNCHANGED <<oScript, oOut, oErr, oChild, oGot>>
    /\ UNCHANGED drainOthers

\* The sleep(self.timeout) arm.  The subprocess is one that exits before the
\* timeout whenever its writes are taken, so the sleep elapses first only
\* when the subprocess is blocked in a write that call_tool is not reading:
\* child.kill(), Err(CallTimeout).
SleepElapses ==
    /\ oRead \in {"stdout", "stderr", "wait"}
    /\ WriteBlocks
    /\ ~(oRead = "stdout" /\ oOut > 0)
    /\ ~(oRead = "stderr" /\ oErr > 0)
    /\ oChild' = "killed"
    /\ oRead' = "timeout"
    /\ UNCHANGED <<oScript, oOut, oErr, oGot>>
    /\ UNCHANGED drainOthers

-----------------------------------------------------------------------------
(* Initial states.                                                         *)

\* the CLI side at rest, for specifications about the supervisor
CliIdle ==
    /\ guard = [allow |-> {}, deny |-> {}, write_access |-> <<>>,
                is_read_only_fn |-> "none"]
    /\ cliExpanded = FALSE
    /\ cliInject = <<>>
    /\ cliPc = "idle"
    /\ cliParams = [name |-> <<>>, arguments |-> NoArguments]
    /\ cliArgs = <<>>
    /\ cliCheck = NoCheck
    /\ cliLog = <<>>
    /\ cliChild = "none"
    /\ cliOutcome = NoOutcome

\* spawn_stdio_server / spawn_http_server have just returned the handle:
\* watch::channel(Starting), an empty call channel, an empty tool list, and
\* the supervisor task at the top of its loop with fresh counters
SupFresh ==
    /\ supPc = "start"
    /\ consecutive_failures = 0
    /\ backoff = BACKOFF_INITIAL
    /\ health = "Starting"
    /\ tools = <<>>
    /\ error_tracker = <<>>
    /\ session = "none"
    /\ child = "none"
    /\ orphans = FALSE
    /\ cancel = FALSE
    /\ call_rx = <<>>
    /\ cur = 0
    /\ supExit = "none"
    /\ callPc = [c \in Callers |-> "idle"]
    /\ callName = [c \in Callers |-> <<>>]
    /\ callSaw = [c \in Callers |-> "none"]
    /\ callOutcome = [c \in Callers |-> NoReply]
    /\ now = 0
    /\ accepted = <<>>
    /\ forwarded = <<>>
    /\ owed = 0
    /\ listed = NoListing
    /\ samples = <<>>
    /\ pubAt = -1
    /\ spawnedAfterCancel = FALSE
    /\ dropped = FALSE

InitSup ==
    /\ transport \in {"stdio", "http"}
    /\ SupFresh
    /\ DiscIdle
    /\ FilterIdle
    /\ ModeIdle
    /\ FanIdle
    /\ DrainIdle
    /\ CliIdle
    /\ ReloadIdle
    /\ RegIdle

NextSup ==
    \/ SupSpawn
    \/ SupSpawnErr
    \/ SupHandshakeOk
    \/ \E died \in BOOLEAN : SupHandshakeFail(died)
    \/ \E ts \in ToolLists : SupListDone(TRUE, ts)
    \/ SupListDone(FALSE, <<>>)
    \/ SupRecv
    \/ \E ok \in BOOLEAN : SupCallDone(ok)
    \/ SupExitDetected
    \/ SupCancelled
    \/ SupBackoffDone
    \/ SupBackoffCancelled
    \/ \E died \in BOOLEAN : SessionEnds(died)
    \/ SessionCancelled
    \/ Shutdown
    \/ \E c \in Callers, name \in CallNames : RegCallRoute(c, name)
    \/ \E c \in Callers : RegCallSend(c)

\* The supervisor is a spawned task on the runtime and is scheduled whenever
\* it can run; a handshake ends within handshake_timeout_secs, a forwarded
\* call and a tool listing end when the session answers or is gone, and a
\* sleep ends.
SupervisorStep ==
    \/ SupSpawn
    \/ SupSpawnErr
    \/ SupHandshakeOk
    \/ \E died \in BOOLEAN : SupHandshakeFail(died)
    \/ \E ts \in ToolLists : SupListDone(TRUE, ts)
    \/ SupListDone(FALSE, <<>>)
    \/ SupRecv
    \/ \E ok \in BOOLEAN : SupCallDone(ok)
    \/ SupExitDetected
    \/ SupCancelled
    \/ SupBackoffDone
    \/ SupBackoffCancelled

FairSup ==
    /\ WF_vars(SupervisorStep)
    /\ WF_vars(SessionCancelled)

\* a prior window of n0 samples, the first k0 of them errors
MaxPrior == 21

PriorWindow(n0, k0) == [i \in 1..n0 |-> [ts |-> 0, err |-> i <= k0]]

\* A connected session after earlier calls: the supervisor sits in its
\* multiplex loop with a tracker holding what those calls recorded.
InitHealth ==
    /\ transport = "stdio"
    /\ \E n0 \in 0..MaxPrior : \E k0 \in 0..n0 :
        /\ error_tracker = PriorWindow(n0, k0)
        /\ samples = PriorWindow(n0, k0)
        /\ health = IF n0 = 0 THEN "Healthy" ELSE health_state(PriorWindow(n0, k0))
        /\ pubAt = IF n0 = 0 THEN -1 ELSE 0
    /\ supPc = "select"
    /\ consecutive_failures = 0
    /\ backoff = BACKOFF_INITIAL
    /\ tools = NamespaceAll(Slug, <<T1>>)
    /\ listed = [ok |-> TRUE, tools |-> <<T1>>]
    /\ session = "alive"
    /\ child = IF transport = "stdio" THEN "alive" ELSE "none"
    /\ orphans = FALSE
    /\ cancel = FALSE
    /\ call_rx = <<>>
    /\ cur = 0
    /\ supExit = "none"
    /\ callPc = [c \in Callers |-> "idle"]
    /\ callName = [c \in Callers |-> <<>>]
    /\ callSaw = [c \in Callers |-> "none"]
    /\ callOutcome = [c \in Callers |-> NoReply]
    /\ now = 0
    /\ accepted = <<>>
    /\ forwarded = <<>>
    /\ owed = 0
    /\ spawnedAfterCancel = FALSE
    /\ dropped = FALSE
    /\ DiscIdle
    /\ FilterIdle
    /\ ModeIdle
    /\ FanIdle
    /\ DrainIdle
    /\ CliIdle
    /\ ReloadIdle
    /\ RegIdle

NextHealth ==
    \/ \E c \in Callers, name \in CallNames : RegCallRoute(c, name)
    \/ \E c \in Callers : RegCallSend(c)
    \/ SupRecv
    \/ \E ok \in BOOLEAN : SupCallDone(ok)
    \/ Tick

\* porter serve after startup: PorterMcpServer::new(registry) built from the
\* file, run_hot_reload watching it
InitReload ==
    /\ ReloadIdle
    /\ DiscIdle
    /\ FilterIdle
    /\ ModeIdle
    /\ FanIdle
    /\ DrainIdle
    /\ CliIdle
    /\ transport = "stdio"
    /\ SupFresh
    /\ RegIdle

\* PorterRegistry::from_config(config) has just been called
InitReg ==
    /\ config \in Configs
    /\ fcPc = "validate"
    /\ fcTodoS = DOMAIN config.servers
    /\ fcTodoC = DOMAIN config.cli
    /\ fcResult = NoError
    /\ regServers = <<>>
    /\ regCli = <<>>
    /\ started = {}
    /\ listing = NoTools
    /\ routed = NoCall
    /\ transport = "stdio"
    /\ SupFresh
    /\ DiscIdle
    /\ FilterIdle
    /\ ModeIdle
    /\ FanIdle
    /\ DrainIdle
    /\ CliIdle
    /\ ReloadIdle

NextReg ==
    \/ \E e \in validate(config) : FcValidateErr(e)
    \/ FcValidateOk
    \/ \E k \in ServerKeys : FcServer(k)
    \/ \E k \in CliKeys : FcCli(k)
    \/ FcDone
    \/ \E slug \in DOMAIN regServers : \E st \in BackendStates(slug) :
            SupervisorPublishes(slug, st)
    \/ \E slug \in DOMAIN regCli : DiscoveryMerges(slug)
    \/ RegToolsBegin
    \/ \E slug \in DOMAIN regServers : RegToolsServer(slug)
    \/ \E slug \in DOMAIN regCli : RegToolsCli(slug)
    \/ RegToolsEnd
    \/ \E name \in RegNames : RegCall(name)

NextReload ==
    \/ \E content \in FileContents : FileWrite(content)
    \/ WatchError
    \/ RlRecv
    \/ RlCancelled
    \/ RlDebounced
    \/ RlReload
    \/ RlSwap
    \/ RlNotify
    \/ RlShutdown
    \/ \E s \in Sessions : SessInitialized(s)
    \/ \E s \in Sessions : SessClosed(s)
    \/ \E s \in Sessions : SessAcquire(s)
    \/ \E s \in Sessions : SessRead(s)
    \/ \E s \in Sessions : SessRelease(s)

-----------------------------------------------------------------------------
(* Specifications.                                                         *)

SupIdle ==
    /\ transport = "stdio"
    /\ SupFresh
    /\ ReloadIdle
    /\ RegIdle
    /\ DiscIdle
    /\ FilterIdle
    /\ ModeIdle
    /\ FanIdle
    /\ DrainIdle

InitGuard == GuardInputs /\ SupIdle

InitCli == CliInputs /\ SupIdle

SpecGuard == InitGuard /\ [][NextGuard]_vars

SpecCli == InitCli /\ [][NextCli]_vars

\* an expanded handle
InitPath == CliInputs /\ cliExpanded = TRUE /\ SupIdle

SpecPath == InitPath /\ [][NextPath]_vars

SpecSup == InitSup /\ [][NextSup]_vars

\* select! polls its ready arms in random order: a request that is queued
\* every time the multiplex loop is entered is received at some point
FairServe ==
    /\ FairSup
    /\ SF_vars(SupRecv)

SpecSupServe == SpecSup /\ FairServe

SpecSupFair == InitSup /\ [][NextSup]_vars /\ FairSup

SpecHealth == InitHealth /\ [][NextHealth]_vars

\* the hot-reload task between two waits for the write lock
ReloadStep ==
    \/ RlRecv
    \/ RlDebounced
    \/ RlReload
    \/ RlNotify

\* The hot-reload task is scheduled whenever it can run; a handler that
\* holds the read guard goes on and returns it; the registry lock is a fair
\* (write-preferring) tokio RwLock, so a waiting writer is granted the lock
\* once the guards that are out have been returned.
FairReload ==
    /\ WF_vars(ReloadStep)
    /\ WF_vars(RlSwap)
    /\ \A s \in Sessions : WF_vars(SessRead(s) \/ SessRelease(s))

SpecReload == InitReload /\ [][NextReload]_vars

SpecReloadFair == SpecReload /\ FairReload

\* a registry with one protocol backend that is dropped without shutdown()
NextDrop ==
    \/ SupSpawn
    \/ SupSpawnErr
    \/ SupHandshakeOk
    \/ \E died \in BOOLEAN : SupHandshakeFail(died)
    \/ \E ts \in ToolLists : SupListDone(TRUE, ts)
    \/ SupListDone(FALSE, <<>>)
    \/ SupExitDetected
    \/ SupBackoffDone
    \/ \E died \in BOOLEAN : SessionEnds(died)
    \/ RegistryDropped
    \/ SupChannelClosed

\* The supervisor task keeps being scheduled; select! picks among its ready
\* arms at random, so an arm that is ready again and again is taken.
FairDrop ==
    /\ WF_vars(SupervisorStep)
    /\ SF_vars(SupChannelClosed)

SpecDrop == InitSup /\ [][NextDrop]_vars

InitDisc ==
    /\ DiscInputs
    /\ FilterIdle
    /\ ModeIdle
    /\ FanIdle
    /\ DrainIdle
    /\ transport = "stdio"
    /\ SupFresh
    /\ CliIdle
    /\ ReloadIdle
    /\ RegIdle

NextDisc ==
    \/ DiscStart
    \/ DiscTier
    \/ DiscMerge
    \/ \E path \in dEnrich, ok \in BOOLEAN : DiscEnrich(path, ok)
    \/ DiscFinish
    \/ DiscListTools
    \/ \E name \in CallTargets : DiscCall(name)

SpecDisc == InitDisc /\ [][NextDisc]_vars

\* the background task of the handle
BackgroundStep ==
    \/ DiscStart
    \/ DiscTier
    \/ DiscMerge
    \/ \E path \in dEnrich, ok \in BOOLEAN : DiscEnrich(path, ok)
    \/ DiscFinish

\* The runtime keeps scheduling the spawned task, and each of its awaits is
\* bounded: a help invocation by its timeout, a tier by its invocations.
FairDisc == WF_vars(BackgroundStep)

SpecDiscFair == SpecDisc /\ FairDisc

InitFilter ==
    /\ FilterInputs
    /\ DiscIdle
    /\ ModeIdle
    /\ FanIdle
    /\ DrainIdle
    /\ transport = "stdio"
    /\ SupFresh
    /\ CliIdle
    /\ ReloadIdle
    /\ RegIdle

NextFilter ==
    \/ FilterLine
    \/ FilterEof
    \/ FilterCancelled
    \/ FilterCancel

SpecFilter == InitFilter /\ [][NextFilter]_vars

InitMode ==
    /\ ModeInputs
    /\ FanIdle
    /\ DrainIdle
    /\ DiscIdle
    /\ FilterIdle
    /\ transport = "stdio"
    /\ SupFresh
    /\ CliIdle
    /\ ReloadIdle
    /\ RegIdle

NextMode == ModeSpawn

SpecMode == InitMode /\ [][NextMode]_vars

SpecDropFair == InitSup /\ [][NextDrop]_vars /\ FairDrop

SpecReg == InitReg /\ [][NextReg]_vars

InitFan ==
    /\ FanInputs
    /\ DrainIdle
    /\ ModeIdle
    /\ DiscIdle
    /\ FilterIdle
    /\ transport = "stdio"
    /\ SupFresh
    /\ CliIdle
    /\ ReloadIdle
    /\ RegIdle

NextFan ==
    \/ FanAcquire
    \/ FanSpawnFails
    \/ FanExits
    \/ FanTimesOut
    \/ FanLeftExits

SpecFan == InitFan /\ [][NextFan]_vars

InitDrain ==
    /\ DrainInputs
    /\ FanIdle
    /\ ModeIdle
    /\ DiscIdle
    /\ FilterIdle
    /\ transport = "stdio"
    /\ SupFresh
    /\ CliIdle
    /\ ReloadIdle
    /\ RegIdle

NextDrain ==
    \/ ChildWrites
    \/ ChildExits
    \/ ReadStdout
    \/ StdoutEof
    \/ ReadStderr
    \/ StderrEof
    \/ WaitReturns
    \/ SleepElapses

SpecDrain == InitDrain /\ [][NextDrain]_vars

-----------------------------------------------------------------------------
(* Claims about the supervisor and its callers.                            *)

IsPrefix(p, q) == Len(p) <= Len(q) /\ \A i \in 1..Len(p) : p[i] = q[i]

\* C3 - Unhealthy routing: a registry call that reads Unhealthy from the
\* backend's health channel returns ServerUnhealthy, is never put on the
\* backend's call channel and is never handed to the backend.
C3_UnhealthyRejected ==
    \A c \in Callers :
        callSaw[c] = "Unhealthy" =>
            /\ callPc[c] = "done"
            /\ callOutcome[c].kind = "ServerUnhealthy"
            /\ c \notin Range(accepted)
            /\ c \notin Range(call_rx)
            /\ c \notin Range(forwarded)
            /\ cur # c

\* a caller was turned away on Unhealthy by a backend that is connected and
\* serving, after another caller's request had been accepted by it
C3_Witness ==
    \E c \in Callers :
        /\ supPc = "select"
        /\ session = "alive"
        /\ callSaw[c] = "Unhealthy"
        /\ callOutcome[c] = [kind |-> "ServerUnhealthy",
                             detail |-> "server is unhealthy", req |-> 0]
        /\ accepted # <<>>

FailureStep ==
    \/ supPc \notin {"backoff", "backoff_cancelled"}
            /\ supPc' \in {"backoff", "backoff_cancelled"}
    \/ supExit = "none" /\ supExit' = "budget"

\* C6 - Failure budget: every failure (spawn error, handshake error or
\* timeout, unexpected session exit) adds exactly one to the counter; below
\* MAX_FAILURES the supervisor publishes Degraded and sleeps exactly once
\* before it spawns or connects again; at MAX_FAILURES it publishes
\* Unhealthy and returns, and from then on health stays Unhealthy and nothing
\* is spawned or connected.  Both transports.
C6_FailureBudget ==
    /\ [](/\ consecutive_failures <= 5
          /\ owed \in {0, 1}
          /\ supPc \in {"start", "handshake", "listing", "select", "forwarding"}
                => owed = 0
          /\ supPc \in {"backoff", "backoff_cancelled"}
                => health = "Degraded" /\ owed = 1 /\ consecutive_failures \in 1..4
          /\ supExit = "budget"
                => supPc = "exited" /\ health = "Unhealthy"
                   /\ consecutive_failures = 5)
    /\ [][/\ FailureStep => consecutive_failures' = consecutive_failures + 1
          /\ (FailureStep /\ consecutive_failures' >= 5)
                => supExit' = "budget" /\ health' = "Unhealthy"
          /\ (FailureStep /\ consecutive_failures' < 5)
                => supPc' \in {"backoff", "backoff_cancelled"} /\ health' = "Degraded"
          /\ (supPc # "start" /\ supPc' = "start")
                => supPc = "backoff" /\ owed = 1 /\ owed' = 0
          /\ supExit = "budget"
                => supExit' = "budget" /\ supPc' = "exited" /\ health' = "Unhealthy"
                   /\ child' = child]_vars

\* an HTTP supervisor that used its whole budget
C6_Witness ==
    /\ transport = "http"
    /\ supExit = "budget"
    /\ health = "Unhealthy"
    /\ consecutive_failures = 5
    /\ backoff = 16

\* the supervisor holds no session as far as the handle can tell
Disconnected == supPc \in {"start", "handshake", "backoff", "backoff_cancelled", "exited"}

\* C7 - the handle's tool list is empty or the namespaced last successful
\* listing of the current session, and it is empty whenever the session is
\* disconnected (unexpected exit, shutdown, supervisor exit) until the next
\* handshake.
C7_ToolsEmptyWhenDisconnected ==
    /\ tools = <<>> \/ (listed.ok /\ tools = NamespaceAll(Slug, listed.tools))
    /\ Disconnected => tools = <<>>

InWindow(t) == {i \in 1..Len(samples) : samples[i].ts + 60 >= t}

ErrorsInWindow(t) == {i \in InWindow(t) : samples[i].err}

Classification(n, k) ==
    IF n < 5 THEN "Starting"
    ELSE IF k * 100 < 5 * n THEN "Healthy"
    ELSE IF k * 100 <= 50 * n THEN "Degraded"
    ELSE "Unhealthy"

\* C8 - Health classification: after a handled call the published health is
\* the classification of the samples recorded in the last 60 seconds:
\* Starting below 5 samples, else Healthy under 5% errors, Degraded from 5%
\* to 50% inclusive, Unhealthy above 50%.
C8_HealthClassification ==
    (supPc \in {"select", "forwarding"} /\ pubAt # -1) =>
        health = Classification(Cardinality(InWindow(pubAt)),
                                Cardinality(ErrorsInWindow(pubAt)))

\* a call handled after time has passed leaves exactly half of the window's
\* samples as errors
C8_Witness ==
    /\ supPc = "select"
    /\ pubAt = now
    /\ now > 0
    /\ Cardinality(InWindow(now)) >= 5
    /\ 2 * Cardinality(ErrorsInWindow(now)) = Cardinality(InWindow(now))
    /\ health = "Degraded"

\* C9 - Per-backend FIFO: the backend receives requests one at a time in the
\* order the call channel accepted them, and every reply goes to the caller
\* whose request produced it.
C9_Fifo ==
    /\ IsPrefix(forwarded, accepted)
    /\ \A i, j \in 1..Len(forwarded) : forwarded[i] = forwarded[j] => i = j
    /\ (cur # 0) = (supPc = "forwarding")
    /\ cur # 0 => cur = forwarded[Len(forwarded)] /\ callPc[cur] = "waiting"
    /\ \A i \in 1..Len(forwarded) :
            forwarded[i] # cur =>
                /\ callPc[forwarded[i]] = "done"
                /\ callOutcome[forwarded[i]].req = forwarded[i]
    /\ \A c \in Callers : callOutcome[c].req # 0 => callOutcome[c].req = c

\* one request is at the backend while a later one waits in the channel
C9_Witness ==
    /\ cur # 0
    /\ call_rx # <<>>
    /\ forwarded = <<accepted[1]>>
    /\ Len(accepted) = 2

\* C10 - Shutdown liveness: once shutdown() has tripped the token the
\* supervisor eventually returns, whatever it was doing, and it does not
\* spawn or connect again.
C10_ShutdownTerminates ==
    /\ [](cancel => <>(supPc = "exited"))
    /\ [](~spawnedAfterCancel)

-----------------------------------------------------------------------------
(* Claims about the server adapter and hot reload.                         *)

\* C4 - the swap is atomic for listTools/callTool: everything one call reads
\* comes from a single registry, the one the pointer referred to when the
\* call acquired it, and that registry stays the current one for as long as
\* the call runs.
C4_SwapAtomic ==
    \A s \in Sessions :
        /\ Cardinality(sessSeen[s]) <= 1
        /\ sessSeen[s] \subseteq {sessPtr[s]}
        /\ s \in readers => sessPtr[s] = current.gen

\* a call that began after one swap is reading the new registry while
\* the next swap is waiting for the lock
C4_Witness ==
    /\ rlPc = "swap"
    /\ current.gen = 1
    /\ \E s \in Sessions : s \in readers /\ sessPc[s] = "second" /\ sessSeen[s] = {1}

FailingContents == {"missing", "badtoml", "invalid", "clifail"}

\* C5 - a failed hot reload changes nothing: when the file cannot be read,
\* parsed, validated or built into a registry, the step that ends the
\* reload leaves the registry pointer, the peers' notification counts and
\* the peer list as they were and goes back to waiting; the swap and the
\* notification are only ever reached from a reload that succeeded.
C5_FailedReloadKeepsAll ==
    /\ [][(rlPc = "reload" /\ rlPc' # "reload" /\ file \in FailingContents)
            => /\ rlPc' = "wait"
               /\ rlLast' = "err"
               /\ current' = current
               /\ notified' = notified
               /\ peers' = peers]_vars
    /\ [](rlPc \in {"swap", "notify"} => rlLast = "ok")
    /\ [](rlLast = "err" /\ writes = 1 =>
                current = [gen |-> 0, cfg |-> "A"] /\ \A p \in Sessions : notified[p] = 0)

\* after one successful reload, a second one failed on a configuration
\* whose CLI handle cannot be built, with a notified peer still listed
C5_Witness ==
    /\ rlLast = "err"
    /\ rlPc = "wait"
    /\ file = "clifail"
    /\ current.gen = 1
    /\ \E p \in Sessions : p \in Range(peers) /\ notified[p] = 1

-----------------------------------------------------------------------------
(* Claims about subprocess cleanup.                                        *)

\* C11 - Scoped subprocess cleanup: no subprocess the supervisor spawned is
\* still running once the supervisor has stopped using it: none was dropped
\* while running (handshake failure or timeout, detected session end), and
\* none is running after the supervisor has returned.
C11_NoSubprocessLeftRunning ==
    /\ ~orphans
    /\ supPc = "exited" => child # "alive"

-----------------------------------------------------------------------------
(* Claims about the registry: configuration, catalog and routing.          *)

\* the description begins with "[via {slug}] "
DescribedVia(tool, slug) ==
    /\ tool.description.some
    /\ tool.description.via # <<>>
    /\ tool.description.via[1] = slug

\* the backends the latest registry.tools() call visited and included
Suppliers(tool) ==
    {i \in DOMAIN listing.saw :
        /\ listing.saw[i].health # "Unhealthy"
        /\ tool \in Range(listing.saw[i].tools)}

\* C13 - Decode-to-owner: for every tool of a finished registry.tools()
\* call, splitting its name on the first "__" gives the slug of exactly one
\* backend of the registry, that backend is the one that supplied the tool,
\* and the tool's description begins with "[via slug] "; for every
\* configuration from_config accepts, protocol and CLI backends alike.
C13_DecodeToOwner ==
    (fcPc = "ok" /\ listing.pc = "done") =>
        \A n \in DOMAIN listing.result :
            LET tool == listing.result[n]
                un == unnamespace_tool_name(tool.name)
            IN  /\ un.found
                /\ Cardinality({b \in (DOMAIN regServers) \cup (DOMAIN regCli) :
                                    b = un.slug}) = 1
                /\ ~(un.slug \in DOMAIN regServers /\ un.slug \in DOMAIN regCli)
                /\ \A i \in Suppliers(tool) : listing.saw[i].slug = un.slug
                /\ DescribedVia(tool, un.slug)

\* C14 - Namespace shape: every tool name of a finished registry.tools()
\* call contains exactly one "__", with a non-empty slug before it and a
\* non-empty original name after it; and the one tool of a CLI handle that
\* is not expanded is named exactly "{slug}__{command}".
C14_NamespaceShape ==
    /\ (fcPc = "ok" /\ listing.pc = "done") =>
            \A n \in DOMAIN listing.result :
                LET un == unnamespace_tool_name(listing.result[n].name) IN
                    /\ un.found
                    /\ Len(un.slug) > 0
                    /\ Len(un.original) > 0
                    /\ FindDD(un.original, 1) = 0
    /\ fcPc = "ok" =>
            \A slug \in DOMAIN regCli :
                ~regCli[slug].expanded =>
                    /\ Len(regCli[slug].tools) = 1
                    /\ regCli[slug].tools[1].name
                            = slug \o <<US, US>> \o regCli[slug].command

\* the tool lists read from the visited backends that are CLI handles or
\* protocol backends not seen Unhealthy, one after the other
RECURSIVE ListsOfIncluded(_)
ListsOfIncluded(saw) ==
    IF Len(saw) = 0 THEN <<>>
    ELSE (IF Head(saw).kind = "cli" \/ Head(saw).health # "Unhealthy"
          THEN Head(saw).tools ELSE <<>>) \o ListsOfIncluded(Tail(saw))

Separators(name) == {i \in 1..(Len(name) - 1) : name[i] = US /\ name[i + 1] = US}

\* the position of the first "__" of a name that has one
FirstSeparator(name) ==
    CHOOSE i \in Separators(name) : \A j \in Separators(name) : i <= j

Unknown == <<"u", "n", "k", "n", "o", "w", "n">>

\* C16 - Routing function of registry.call_tool: a name without "__" gives
\* a Protocol error with slug "unknown" whose detail says "no namespace
\* prefix"; otherwise the name is split on its first "__" into slug and
\* original name, a CLI handle with that slug takes the call, else the
\* protocol backend with that slug is invoked with the original name (or
\* refuses when Unhealthy), else the result is a Protocol error carrying the
\* slug; in both Protocol error cases no backend is invoked and nothing of
\* the registry changes.
C16_Routing ==
    /\ [](routed # NoCall =>
            LET name == routed.name
                pos == FirstSeparator(name)
                slug == SubSeq(name, 1, pos - 1)
                original == SubSeq(name, pos + 2, Len(name))
            IN  IF Separators(name) = {}
                THEN /\ routed.outcome = [kind |-> "Protocol", slug |-> Unknown,
                                           detail |-> "no namespace prefix"]
                     /\ routed.invoked = "none"
                ELSE IF slug \in DOMAIN regCli
                THEN /\ routed.invoked = "cli"
                     /\ routed.slug = slug
                     /\ routed.original = original
                     /\ routed.outcome = NoError
                ELSE IF slug \in DOMAIN regServers
                THEN \/ /\ routed.invoked = "server"
                        /\ routed.slug = slug
                        /\ routed.original = original
                        /\ routed.outcome = NoError
                     \/ /\ routed.invoked = "none"
                        /\ routed.outcome.kind = "ServerUnhealthy"
                        /\ routed.outcome.slug = slug
                ELSE /\ routed.outcome.kind = "Protocol"
                     /\ routed.outcome.slug = slug
                     /\ routed.invoked = "none")
    /\ [][(routed' # routed /\ routed'.outcome.kind = "Protocol") =>
            /\ routed'.invoked = "none"
            /\ UNCHANGED <<config, regServers, regCli, started, fcPc, fcResult>>
            /\ UNCHANGED regOthers]_vars

\* a call whose name holds two "__" was handed to the CLI handle named by
\* the part before the first one, with everything after it as the name
C16_Witness ==
    /\ routed.invoked = "cli"
    /\ Cardinality(Separators(routed.name)) > 1
    /\ routed.slug \in DOMAIN regCli
    /\ DOMAIN regServers # {}
    /\ Len(routed.original) > 0

-----------------------------------------------------------------------------
(* Claims about the access guard's decision order.                         *)

\* some prefix of the set is a string prefix of the path
SomePrefix(prefixes, path) ==
    \E q \in prefixes : Len(q) <= Len(path) /\ \A i \in 1..Len(q) : q[i] = path[i]

\* the write_access prefixes mapped to true
OptedIn(g) == {q \in DOMAIN g.write_access : g.write_access[q]}

\* C17 - Access-guard decision order: check(command, args) is the first
\* applicable of (1) a deny prefix is a prefix of the space-joined path:
\* ExplicitDeny; (2) an oracle is attached, says the args are not read-only,
\* and no write_access entry mapped to true is a prefix of the path:
\* WriteBlocked, with a message naming command and path and saying "is a
\* write operation" and "Enable write_access"; (3) the allow list is
\* non-empty and none of its prefixes is a prefix of the path:
\* NotInAllowList; (4) Ok.  So a write that is not opted in is blocked even
\* when the allow list matches, an entry mapped to false enables nothing,
\* and an empty allow list never gives NotInAllowList.
C17_DecisionOrder ==
    cliCheck # NoCheck =>
        LET path == JoinSp(cliArgs)
            denied == SomePrefix(guard.deny, path)
            write == /\ guard.is_read_only_fn # "none"
                     /\ ~IsReadOnly(guard.is_read_only_fn, cliArgs)
                     /\ ~SomePrefix(OptedIn(guard), path)
            missed == guard.allow # {} /\ ~SomePrefix(guard.allow, path)
        IN  /\ denied => cliCheck = [kind |-> "ExplicitDeny", subcommand |-> path]
            /\ (~denied /\ write) =>
                    /\ cliCheck.kind = "WriteBlocked"
                    /\ cliCheck.subcommand = path
                    /\ cliCheck.hint.command = Command
                    /\ cliCheck.hint.path = path
                    /\ cliCheck.hint.suffix =
                        " is a write operation. Enable write_access in config to allow."
            /\ (~denied /\ ~write /\ missed) =>
                    cliCheck = [kind |-> "NotInAllowList", subcommand |-> path]
            /\ (~denied /\ ~write /\ ~missed) => cliCheck = GuardOk
            /\ guard.allow = {} => cliCheck.kind # "NotInAllowList"

\* a write the allow list matches, with a matching write_access entry mapped
\* to false and no deny match, was blocked as a write
C17_Witness ==
    /\ cliCheck # NoCheck
    /\ cliCheck.kind = "WriteBlocked"
    /\ SomePrefix(guard.allow, JoinSp(cliArgs))
    /\ ~SomePrefix(guard.deny, JoinSp(cliArgs))
    /\ guard.deny # {}
    /\ \E q \in DOMAIN guard.write_access :
            ~guard.write_access[q] /\ SomePrefix({q}, JoinSp(cliArgs))

-----------------------------------------------------------------------------
(* Claims about configuration errors.                                      *)

\* C18 - Fail fast, spawn nothing: when from_config has failed with
\* DuplicateSlug or InvalidConfig, from validate() or from the construction
\* of a CLI handle, that call has started no supervisor task, subprocess or
\* connection, and nothing it started is left running.
C18_FailFastSpawnsNothing ==
    (fcPc = "err" /\ fcResult.kind \in {"DuplicateSlug", "InvalidConfig"})
        => started = {}

\* an enabled backend of either table whose slug is not valid
InvalidSlugs ==
    {config.servers[k].slug : k \in {k1 \in DOMAIN config.servers :
        config.servers[k1].enabled /\ SlugInvalid(config.servers[k1].slug)}}
    \cup
    {config.cli[k].slug : k \in {k1 \in DOMAIN config.cli :
        config.cli[k1].enabled /\ SlugInvalid(config.cli[k1].slug)}}

\* C19 - Slug validity is enforced for every enabled backend of either
\* table: once validate() has run over a configuration in which an enabled
\* protocol or CLI backend has a slug that is empty, holds a character other
\* than alphanumerics and hyphen, or contains "__", from_config has failed
\* and never builds a registry; and no registry holds a backend whose slug
\* is invalid.
C19_SlugValidity ==
    /\ (InvalidSlugs # {} /\ fcPc # "validate") => fcPc = "err"
    /\ \A slug \in (DOMAIN regServers) \cup (DOMAIN regCli) : ~SlugInvalid(slug)

-----------------------------------------------------------------------------
(* Claims about the supervisor's backoff.                                  *)

\* the sleep on the k-th consecutive failure, as the sequence is announced
AnnouncedSleeps == <<1, 2, 4, 8, 16, 30, 30>>

Sleeping == supPc \in {"backoff", "backoff_cancelled"}

\* C20 as stated - every consecutive failure sleeps: the k-th consecutive
\* failure since the last reset is followed by a sleep of the k-th duration
\* of 1s, 2s, 4s, 8s, 16s, 30s, 30s.
C20_EveryFailureSleeps ==
    [][FailureStep =>
        /\ supPc' \in {"backoff", "backoff_cancelled"}
        /\ backoff' = AnnouncedSleeps[consecutive_failures']]_vars

\* C20 - Backoff sequence: counted from the last reset (start or successful
\* handshake), the supervisor sleeps 1s, 2s, 4s, 8s on its 1st to 4th
\* consecutive failure; the 5th consecutive failure ends the supervisor
\* without a sleep, so the backoff never exceeds 16s and neither 16s nor 30s
\* is ever slept; a completed sleep doubles the backoff, capped at 30s, and
\* a successful handshake resets it to 1s.
C20_BackoffSequence ==
    /\ [](/\ Sleeping =>
                /\ consecutive_failures \in 1..4
                /\ backoff = AnnouncedSleeps[consecutive_failures]
          /\ backoff \in {1, 2, 4, 8, 16}
          /\ supPc \in {"select", "forwarding"} =>
                backoff = 1 /\ consecutive_failures = 0)
    /\ [][/\ (supPc = "backoff" /\ supPc' = "start") =>
                backoff' = IF 2 * backoff > 30 THEN 30 ELSE 2 * backoff
          /\ (FailureStep /\ consecutive_failures' = 5) =>
                supPc' = "exited" /\ backoff' = backoff
          /\ (supPc = "listing" /\ supPc' = "select") => backoff' = 1]_vars

\* the fourth failure in a row after an earlier session had listed its
\* tools: the supervisor sleeps 8s
C20_Witness ==
    /\ supPc = "backoff"
    /\ consecutive_failures = 4
    /\ backoff = 8
    /\ listed.ok
    /\ ~cancel

-----------------------------------------------------------------------------
(* Claims about failed calls and restarts.                                 *)

\* the supervisor hands the result of the forwarded call back, an error
CallFailedStep ==
    /\ supPc = "forwarding"
    /\ supPc' = "select"
    /\ callOutcome'[cur].kind = "Protocol"

\* error samples of a window stamped t
ErrorsAt(window, t) == {i \in 1..Len(window) : window[i].ts = t /\ window[i].err}

\* C21 - A failed tool call never restarts a backend: when a forwarded call
\* returns an error, the error goes to its caller and exactly one error
\* sample is recorded, while the failure counter, the backoff, the tool
\* list, the subprocess and the session stay as they are and nothing is
\* killed, respawned or reconnected; the supervisor spawns or connects again
\* only out of a backoff sleep, and a failure is counted only for a failed
\* spawn or handshake or an ended session.
C21_FailedCallKeepsBackend ==
    [][/\ CallFailedStep =>
            /\ callPc'[cur] = "done"
            /\ callOutcome'[cur].req = cur
            /\ \A c \in Callers \ {cur} : callOutcome'[c] = callOutcome[c]
            /\ Cardinality(ErrorsAt(error_tracker', now))
                    = Cardinality(ErrorsAt(error_tracker, now)) + 1
            /\ Len(samples') = Len(samples) + 1
            /\ UNCHANGED <<consecutive_failures, backoff, tools, session, child,
                           orphans, owed, supExit, call_rx, cancel>>
       /\ (supPc = "forwarding") => supPc' \in {"forwarding", "select"}
       /\ FailureStep =>
            \/ supPc \in {"start", "handshake"}
            \/ supPc = "select" /\ session = "ended"
       /\ (supPc # "handshake" /\ supPc' = "handshake") => supPc = "start"
       /\ (supPc # "start" /\ supPc' = "start") => supPc = "backoff"]_vars

\* a call failed on a live stdio session that keeps its tools and counters
C21_Witness ==
    /\ supPc = "select"
    /\ transport = "stdio"
    /\ session = "alive"
    /\ child = "alive"
    /\ tools # <<>>
    /\ consecutive_failures = 0
    /\ backoff = 1
    /\ \E c \in Callers :
            /\ callPc[c] = "done"
            /\ callOutcome[c] = [kind |-> "Protocol", detail |-> "from backend", req |-> c]
    /\ ErrorCount(error_tracker) > 0

-----------------------------------------------------------------------------
(* Claims about the registry lock and the reload notification.             *)

\* C22 - a session holds the current-registry lock only while it copies the
\* pointer: no session has the read guard out while its call is reading the
\* registry (listing tools or calling a backend), so the hot-reload task
\* can take the write lock and swap while calls are in flight.
C22_LockOnlyForClone ==
    /\ \A s \in Sessions : sessPc[s] \in {"first", "second"} => s \notin readers
    /\ (rlPc = "swap" => WriteLockFree)

\* the notification pass of one reload
NotifyPass == rlPc = "notify" /\ rlPc' # "notify"

\* C23 - reload notification: the pass runs only after a successful reload
\* whose swap is in place; it sends exactly one tools-list-changed
\* notification to every peer of the list and none to anyone else; the list
\* it leaves holds exactly the peers whose notification went out, in their
\* original order; nothing is sent outside a pass, and a peer whose
\* notification failed is dropped for good and never notified again.
C23_NotifyAfterSwap ==
    /\ [][NotifyPass =>
            /\ rlLast = "ok"
            /\ rlNew = NoRegistry
            /\ current' = current
            /\ current.gen >= 1
            /\ \A p \in Sessions :
                    notified'[p] = notified[p]
                        + (IF p \in Range(peers) /\ peerLive[p] THEN 1 ELSE 0)
            /\ peers' = SelectSeq(peers, LAMBDA p : peerLive[p])
            /\ \A p \in Sessions : notified'[p] <= current.gen]_vars
    /\ [][~NotifyPass => notified' = notified]_vars
    /\ [][\A p \in Sessions :
            /\ (p \in Range(peers) /\ p \notin Range(peers')) => NotifyPass /\ ~peerLive[p]
            /\ ~peerLive[p] => ~peerLive'[p] /\ notified'[p] = notified[p]
            /\ (~peerLive[p] /\ p \notin Range(peers)) => p \notin Range(peers')]_vars

\* the second reload's pass notified one peer a second time and pruned the
\* other, which the first pass had notified
C23_Witness ==
    /\ rlPc = "wait"
    /\ current.gen = 2
    /\ \E p, q \in Sessions :
        /\ peers = <<p>>
        /\ notified[p] = 2
        /\ ~peerLive[q]
        /\ notified[q] = 1

-----------------------------------------------------------------------------
(* Claims about dropping a registry.                                       *)

\* C24 - dropping a registry without shutdown() trips its root cancellation
\* token, and the supervisor eventually returns with its subprocess killed.
C24_DropCleansUp ==
    /\ [](dropped => cancel)
    /\ []((dropped /\ ~orphans) => <>(supPc = "exited" /\ child # "alive" /\ ~orphans))

-----------------------------------------------------------------------------
(* Claims about background discovery.                                      *)

ToolNames(ts) == {ts[i].name : i \in 1..Len(ts)}

\* C25 - during background discovery the handle's tool list only grows:
\* every step keeps each tool at its place with its name and description,
\* so a name read once is read ever after; the profile's static entries
\* stay the first entries under their names; no two tools share a name, a
\* discovered tool being added only when its name is absent; and an
\* enrichment step changes nothing but input schemas.
C25_ToolsGrowMonotonically ==
    /\ [][/\ Len(dTools') >= Len(dTools)
          /\ ToolNames(dTools) \subseteq ToolNames(dTools')
          /\ \A i \in 1..Len(dTools) :
                /\ dTools'[i].name = dTools[i].name
                /\ dTools'[i].description = dTools[i].description
          /\ \A i \in (Len(dTools) + 1)..Len(dTools') :
                dTools'[i].name \notin ToolNames(dTools)
          /\ (dRun.pc = "enrich" => Len(dTools') = Len(dTools))
          /\ (dRun.pc # "enrich" =>
                \A i \in 1..Len(dTools) :
                    dTools'[i].input_schema = dTools[i].input_schema)]_vars
    /\ [](dIn.tree # 0 =>
            LET static == initial_tools(dIn.profile) IN
            /\ Len(dTools) >= Len(static)
            /\ \A i \in 1..Len(static) :
                /\ dTools[i].name = static[i].name
                /\ dTools[i].description = static[i].description)
    /\ [](\A i, j \in 1..Len(dTools) : dTools[i].name = dTools[j].name => i = j)

\* discovery has ended on a kubectl handle: a discovered tool follows the
\* static entries, a discovered read-only path was left out because a
\* static entry has its name, and a tool's schema was enriched
C25_Witness ==
    /\ dRun.pc = "done"
    /\ dIn.profile = "kubectl"
    /\ Len(dTools) > Len(initial_tools("kubectl"))
    /\ \E i \in 1..Len(dRun.paths) :
            /\ PathIsRead("kubectl", dRun.paths[i].path)
            /\ DiscoveredTool(dRun.paths[i].path).name
                    \in ToolNames(initial_tools("kubectl"))
    /\ \E i \in 1..Len(dTools) : dTools[i].input_schema = "enriched"

PathSet(run) == {run.paths[i] : i \in 1..Len(run.paths)}

\* the paths discover_subcommands returns on the handle's help tree and
\* max_depth when given the budget B
PathsWithBudget(B) ==
    PathSet(discover_subcommands(HelpTrees[dIn.tree], dIn.max_depth, B))

\* C26 - discovery is monotone in the budget: on the same help tree, with
\* the same outcome and duration of every invocation, the run with budget B
\* returns every path the runs with smaller budgets return, and every run
\* with a larger budget returns every path it returns.
C26_MonotoneInBudget ==
    (dIn.tree # 0 /\ dRun.pc \in {"returned", "enrich", "done"}) =>
        /\ PathSet(dRun) = PathsWithBudget(dIn.budget)
        /\ \A B1 \in 0..dIn.budget : PathsWithBudget(B1) \subseteq PathSet(dRun)
        /\ \A B2 \in dIn.budget..(MaxBudget + 1) : PathSet(dRun) \subseteq PathsWithBudget(B2)
        /\ \A B1, B2 \in 0..(MaxBudget + 1) :
                B1 <= B2 => PathsWithBudget(B1) \subseteq PathsWithBudget(B2)

\* a run that returned more than a run with a smaller budget, which timed
\* out with some paths, and less than a run with a larger budget
C26_Witness ==
    /\ dRun.pc = "returned"
    /\ dRun.timed_out
    /\ \E B1 \in 0..dIn.budget :
            /\ PathsWithBudget(B1) # {}
            /\ PathsWithBudget(B1) # PathSet(dRun)
    /\ \E B2 \in dIn.budget..MaxBudget : PathsWithBudget(B2) # PathSet(dRun)

-----------------------------------------------------------------------------
(* Claims about the stdout filter.                                         *)

\* the lines of the subprocess's stdout that parse as JSON, in order
JsonLines ==
    SelectSeq([n \in 1..Len(fLines) |-> [id |-> n, kind |-> fLines[n]]],
              LAMBDA l : ParsesAsJson(l.kind))

\* C27 - the lines delivered to the protocol client are exactly the stdout
\* lines that parse as JSON, in order: what has been delivered is always a
\* prefix of them, and when the stream is closed for any reason but
\* cancellation all of them have been delivered.
C27_DeliversExactlyJsonLines ==
    /\ IsPrefix(fDelivered, JsonLines)
    /\ (fEnd \in {"eof", "error"} => fDelivered = JsonLines)

-----------------------------------------------------------------------------
(* Claims about the encoding of subcommand paths in tool names.            *)

\* C28 - path round trip: whenever a call to the tool of an exposed path P,
\* made on the handle with the name "{slug}__" + join(P, "_") or through
\* the registry, has spawned the command, the arguments of the subprocess
\* are P, then the user's arguments, then the inject flags.
C28_PathRoundTrip ==
    \A path \in ExposedPaths :
        (/\ cliParams.name \in {PathToolName(path, TRUE), PathToolName(path, FALSE)}
         /\ Len(cliLog) > 0
         /\ cliLog[Len(cliLog)].ev = "spawn")
        => cliLog[Len(cliLog)].args
                = path \o ExtractArgs(cliParams.arguments) \o cliInject

-----------------------------------------------------------------------------
(* Claims about the choice of the expansion mode.                          *)

\* whether the fourth rule looks at the profile's expand-by-default flag
ModeByRules(c, byDefaultOnly) ==
    CASE c.expand_subcommands = "false" -> [kind |-> "SingleTool", depth |-> NoDepth]
      [] c.expand_subcommands # "false" /\ c.help_depth = 0 ->
            [kind |-> "SingleTool", depth |-> NoDepth]
      [] c.expand_subcommands # "false" /\ c.help_depth \in 1..MaxHelpDepth ->
            [kind |-> "Discovery", depth |-> c.help_depth]
      [] /\ c.expand_subcommands # "false"
         /\ c.help_depth = NoDepth
         /\ c.profile # "none"
         /\ (byDefaultOnly => c.profile # "rg") ->
            [kind |-> "Discovery", depth |-> 3]
      [] OTHER ->
            IF c.expand_subcommands = "true"
            THEN IF c.profile = "none"
                 THEN [kind |-> "Err", depth |-> NoDepth]
                 ELSE [kind |-> "StaticProfile", depth |-> NoDepth]
            ELSE [kind |-> "SingleTool", depth |-> NoDepth]

-----------------------------------------------------------------------------
(* Claims about the shape of the discovery walk.                           *)

Emitted(path, leaf) == DiscoveredPathOf(path, leaf) \in PathSet(dRun)

Explored == {dRun.ran[i] : i \in 1..Len(dRun.ran)}

Enqueued == {dRun.queue[i].prefix : i \in 1..Len(dRun.queue)}

\* C30 - shape of the walk with max_depth d: it starts at the empty prefix
\* and goes tier by tier, a tier holding prefixes of one length and the
\* prefixes being explored in order of length; every emitted path has a
\* length from 1 to d; a child found below the limit is emitted as
\* non-leaf and enqueued (waiting or explored), a child found at the limit
\* is emitted as leaf and never explored; an explored non-empty prefix
\* without children is emitted as leaf; the empty prefix is never emitted;
\* nothing but the empty prefix and emitted non-leaves is explored; and
\* with d = 0 the run returns no paths, no errors, timed_out false, and no
\* command is run.
C30_BfsShape ==
    (dIn.tree # 0 /\ dRun.pc # "idle") =>
    LET d == dIn.max_depth
        tree == HelpTrees[dIn.tree]
    IN
    /\ \A i \in 1..Len(dRun.paths) :
            /\ Len(dRun.paths[i].path) \in 1..d
            /\ dRun.paths[i].is_leaf \/ Len(dRun.paths[i].path) < d
            /\ ~dRun.paths[i].is_leaf =>
                    dRun.paths[i].path \in Explored \cup Enqueued
            /\ Len(dRun.paths[i].path) = d =>
                    dRun.paths[i].is_leaf /\ dRun.paths[i].path \notin Explored
    /\ \A prefix \in Explored :
            LET r == run_help_and_parse(tree, prefix) IN
            /\ prefix = <<>> \/ Emitted(prefix, FALSE)
            /\ Len(prefix) < d
            /\ (r.ok /\ Len(r.subs) = 0 /\ Len(prefix) # 0) => Emitted(prefix, TRUE)
            /\ r.ok => \A k \in 1..Len(r.subs) :
                    Emitted(Append(prefix, r.subs[k]), Len(prefix) + 1 = d)
            /\ (~r.ok) = (\E k \in 1..Len(dRun.errors) : dRun.errors[k][1] = prefix)
    /\ \A i, j \in 1..Len(dRun.queue) :
            /\ dRun.queue[i].depth = dRun.queue[j].depth
            /\ dRun.queue[i].depth = Len(dRun.queue[i].prefix)
            /\ \A q \in Explored : Len(q) < dRun.queue[i].depth
    /\ \A i, j \in 1..Len(dRun.ran) : i <= j => Len(dRun.ran[i]) <= Len(dRun.ran[j])
    /\ (Len(dRun.ran) > 0 => dRun.ran[1] = <<>>)
    /\ (d = 0 => /\ dRun.pc \in {"returned", "enrich", "done"}
                 /\ dRun.paths = <<>>
                 /\ dRun.errors = <<>>
                 /\ ~dRun.timed_out
                 /\ dRun.ran = <<>>)

\* a walk of depth 3 has returned in time: it emitted a non-leaf that it
\* later explored and emitted again as a leaf, and a leaf at the depth
\* limit that it did not explore
C30_Witness ==
    /\ dRun.pc = "returned"
    /\ dIn.max_depth = 3
    /\ ~dRun.timed_out
    /\ \E p \in Explored : Len(p) > 0 /\ Emitted(p, FALSE) /\ Emitted(p, TRUE)
    /\ \E i \in 1..Len(dRun.paths) :
            /\ Len(dRun.paths[i].path) = 3
            /\ dRun.paths[i].is_leaf
            /\ dRun.paths[i].path \notin Explored
            /\ Len(run_help_and_parse(HelpTrees[dIn.tree], dRun.paths[i].path).subs) > 0

-----------------------------------------------------------------------------
(* Claims about discovery failures and the total deadline.                 *)

\* the errors a run must hold after the invocations `ran`: one entry, with
\* its reason, for each invocation that failed, in the order of collection
RECURSIVE ErrorsOf(_, _)
ErrorsOf(tree, ran) ==
    IF Len(ran) = 0 THEN <<>>
    ELSE LET r == run_help_and_parse(tree, Head(ran))
         IN (IF r.ok THEN <<>> ELSE <<(<<Head(ran), r.reason>>)>>)
                \o ErrorsOf(tree, Tail(ran))

\* the prefixes a tier leaves queued: the children of its prefixes whose
\* help could be read, unless they are at the depth limit
RECURSIVE ChildrenOf(_, _, _)
ChildrenOf(tree, d, tier) ==
    IF Len(tier) = 0 THEN <<>>
    ELSE LET e == Head(tier)
             r == run_help_and_parse(tree, e.prefix)
         IN (IF r.ok /\ e.depth + 1 < d
             THEN [k \in 1..Len(r.subs) |-> Append(e.prefix, r.subs[k])]
             ELSE <<>>) \o ChildrenOf(tree, d, Tail(tier))

\* the loop head finds prefixes queued and the deadline reached
DeadlineBetweenTiers ==
    /\ dRun.pc = "bfs"
    /\ Len(dRun.queue) > 0
    /\ dRun.clock >= dIn.budget

\* C31: a help invocation that cannot be spawned or that exceeds the
\* per-invocation timeout adds exactly one (prefix, reason) entry to errors
\* and nothing else stops: every prefix of the tier is explored, the
\* children of the prefixes that could be read are queued for the next tier
\* and the loop goes on.  timed_out is set exactly when the loop head finds
\* the deadline reached with prefixes still queued, and then the run returns
\* with the paths and errors it had.
C31_SoftFailures ==
    /\ [](/\ dRun.errors = ErrorsOf(HelpTrees[dIn.tree], dRun.ran)
          /\ dRun.timed_out =>
                /\ dRun.pc \in {"returned", "enrich", "done"}
                /\ Len(dRun.queue) > 0
                /\ dRun.clock >= dIn.budget
          /\ (dRun.pc \in {"returned", "enrich", "done"} /\ ~dRun.timed_out) =>
                Len(dRun.queue) = 0)
    /\ [][(dRun.pc = "bfs" /\ dRun' # dRun) =>
            IF DeadlineBetweenTiers
            THEN /\ dRun'.timed_out
                 /\ dRun'.pc = "returned"
                 /\ dRun'.paths = dRun.paths
                 /\ dRun'.errors = dRun.errors
            ELSE /\ ~dRun'.timed_out
                 /\ dRun'.ran = dRun.ran \o
                        [i \in 1..Len(dRun.queue) |-> dRun.queue[i].prefix]
                 /\ [i \in 1..Len(dRun'.queue) |-> dRun'.queue[i].prefix] =
                        ChildrenOf(HelpTrees[dIn.tree], dIn.max_depth, dRun.queue)
                 /\ (Len(dRun.queue) > 0 => dRun'.pc = "bfs")]_vars

\* a run has returned on the deadline with prefixes queued, after a tier in
\* which one help timed out and the other prefixes were read and their
\* children queued
C31_Witness ==
    /\ dRun.pc = "returned"
    /\ dRun.timed_out
    /\ Len(dRun.queue) > 1
    /\ \E k \in 1..Len(dRun.errors) :
            /\ dRun.errors[k][2] = "--help timed out"
            /\ \E i \in 1..Len(dRun.queue) :
                    /\ Len(dRun.queue[i].prefix) = Len(dRun.errors[k][1]) + 1
                    /\ ~IsPrefix(dRun.errors[k][1], dRun.queue[i].prefix)
    /\ Len(dRun.paths) > 0

-----------------------------------------------------------------------------
(* Claims about subprocess fan-out and output draining.                    *)

\* C32: of the help subprocesses one discovery run started, at most 8 are
\* alive at any time, and of those schema enrichment started, at most 4,
\* the subprocesses of invocations that timed out included.
C32_FanOutCapped ==
    fanRunning + fanLeft <= Permits(fanKind)

\* C34: a subprocess that writes to stdout and stderr in any interleaving
\* and exits before the timeout when its output is taken is never reported
\* as CallTimeout.
C34_NeverCallTimeout ==
    oRead # "timeout"

-----------------------------------------------------------------------------
(* Claims about the discovery flag and about what a handle executes.       *)

\* every discovered path the read-only filter accepts has its tool listed
DiscoveredMerged ==
    \A i \in 1..Len(dRun.paths) :
        PathIsRead(dIn.profile, dRun.paths[i].path) =>
            Seen(dTools, DiscoveredTool(dRun.paths[i].path).name)

\* C33: the discovery flag of a discovery-mode handle is set from
\* construction, is cleared after finitely many steps of the background
\* task, is cleared only when the discovered tools are merged and no
\* enrichment task is left, and is never set again; tools() and call_tool
\* can be taken whatever the flag holds.
C33_DiscoveryTerminates ==
    /\ discovery_in_progress
    /\ <>(~discovery_in_progress)
    /\ [](~discovery_in_progress => [](~discovery_in_progress))
    /\ [][(discovery_in_progress /\ ~discovery_in_progress') =>
            /\ dRun.pc = "enrich"
            /\ dEnrich = {}
            /\ DiscoveredMerged
            /\ UNCHANGED <<dTools, dEnrich>>]_vars
    /\ [](/\ ENABLED DiscListTools
          /\ \A name \in CallTargets : ENABLED DiscCall(name))

\* the flag is cleared on a handle that merged discovered tools and
\* enriched one of them, and whose latest tools() ran while the flag was set
\* and returned a shorter list
C33_Witness ==
    /\ ~discovery_in_progress
    /\ Len(dTools) > Len(initial_tools(dIn.profile))
    /\ \E i \in 1..Len(dTools) : dTools[i].input_schema = "enriched"
    /\ dSnap # <<>>
    /\ Len(dSnap) < Len(dTools)
    /\ dCall.spawned

\* C40: call_tool spawns the subprocess for a subcommand path only if the
\* tool naming that path is in the handle's tool list at that moment; a
\* path the read-only filter rejected cannot be run by calling its name.
C40_CatalogBoundsCalls ==
    [][(dCall' # dCall /\ dCall'.spawned) => Seen(dTools, dCall'.name)]_vars

-----------------------------------------------------------------------------
(* Claims about the supervisor's published health and its retries.         *)

\* C35: the published health becomes Starting only when the supervisor
\* begins a spawn/handshake attempt; inside a connected session, after
\* Healthy was published, handling a call moves it among Healthy, Degraded
\* and Unhealthy only, and a successful call never moves Healthy to Starting.
C35_HealthOrder ==
    [][/\ (health' = "Starting" /\ health # "Starting") =>
                (supPc = "start" /\ supPc' = "handshake")
       /\ (supPc = "forwarding" /\ supPc' = "select") =>
                health' \in {"Healthy", "Degraded", "Unhealthy"}]_vars

RECURSIVE Pow2(_)
Pow2(n) == IF n = 0 THEN 1 ELSE 2 * Pow2(n - 1)

\* a failure is counted in this step
FailureCounted == owed' = owed + 1

\* C36: at every start of a supervisor iteration the failures since the
\* last successful handshake are at most 4 and backoff is
\* min(2^failures s, 30 s); a sleep is entered with 1 to 4 failures and
\* lasts 2^(failures-1) s, at most 8 s; the counter moves by one per failure
\* and back to 0 only at a successful handshake; a connected session that
\* ends is a first failure, slept with 1 s, and never ends the supervisor.
C36_RetryInvariant ==
    /\ [](supPc = "start" =>
            /\ consecutive_failures <= 4
            /\ backoff = Min(Pow2(consecutive_failures), BACKOFF_MAX))
    /\ [](supPc \in {"backoff", "backoff_cancelled"} =>
            /\ consecutive_failures \in 1..4
            /\ backoff = Pow2(consecutive_failures - 1)
            /\ backoff <= 8)
    /\ [][/\ FailureCounted => consecutive_failures' = consecutive_failures + 1
          /\ consecutive_failures' # consecutive_failures =>
                \/ FailureCounted
                \/ supPc = "listing" /\ consecutive_failures' = 0
          /\ (supPc = "select" /\ FailureCounted) =>
                /\ consecutive_failures' = 1
                /\ backoff = BACKOFF_INITIAL
                /\ supPc' \in {"backoff", "backoff_cancelled"}]_vars

\* an iteration starts after four failures in a row that followed a
\* successful handshake: the backoff is 16 s, and it will not be slept
C36_Witness ==
    /\ supPc = "start"
    /\ consecutive_failures = 4
    /\ backoff = 16
    /\ listed.ok

-----------------------------------------------------------------------------
(* Claims about the requests on a backend's call channel.                  *)

\* how often caller c is queued
TimesQueued(c) == Cardinality({i \in 1..Len(call_rx) : call_rx[i] = c})

\* the outcomes an accepted request can get
AcceptedOutcome(o, c) ==
    \/ o.kind \in {"Result", "Protocol"} /\ o.detail = "from backend" /\ o.req = c
    \/ o.kind = "Protocol" /\ o.detail = "response channel dropped"

-----------------------------------------------------------------------------
(* Claims about a backend the error rate made Unhealthy.                   *)

\* the multiplex loop of a connected session is idle, every request it was
\* sent has been served, and the health it last published for a call is
\* Unhealthy
UnhealthyAndServed ==
    /\ supPc = "select"
    /\ health = "Unhealthy"
    /\ pubAt >= 0
    /\ call_rx = <<>>
    /\ cur = 0

\* no caller is between the registry's health check and its send
NoneInFlight == \A c \in Callers : callPc[c] # "sending"

\* what staying Unhealthy means for one step inside the session: nothing is
\* queued, no sample is recorded, the health is kept, and a call that is
\* routed to the backend is turned away
StaysUnhealthy ==
    /\ call_rx' = <<>>
    /\ cur' = 0
    /\ samples' = samples
    /\ error_tracker' = error_tracker
    /\ health' = "Unhealthy"
    /\ \A c \in Callers :
            (callPc[c] = "idle" /\ callPc'[c] # "idle" /\ callSaw'[c] # "none") =>
                /\ callPc'[c] = "done"
                /\ callOutcome'[c].kind = "ServerUnhealthy"

\* C38 as stated: once the error rate made a connected backend Unhealthy and
\* the requests queued before have been served, nothing more is forwarded
\* to it and it stays Unhealthy for as long as the session is connected.
C38_UnhealthyAbsorbing ==
    [][(UnhealthyAndServed /\ supPc' = "select") => StaysUnhealthy]_vars

\* C38: the same, once the calls that passed the registry's health check
\* before Unhealthy was published have been sent and served as well.
C38_UnhealthyAbsorbingAfterInFlight ==
    [][(UnhealthyAndServed /\ NoneInFlight /\ supPc' = "select") =>
            (StaysUnhealthy /\ NoneInFlight')]_vars

\* a connected backend is Unhealthy by its error rate, holds no request, and
\* has turned a caller away after time has passed
C38_Witness ==
    /\ UnhealthyAndServed
    /\ NoneInFlight
    /\ session = "alive"
    /\ now > 0
    /\ Len(samples) >= MinSamples
    /\ \E c \in Callers :
            /\ callSaw[c] = "Unhealthy"
            /\ callOutcome[c].kind = "ServerUnhealthy"
    /\ \E c \in Callers : callOutcome[c].detail = "from backend"

-----------------------------------------------------------------------------
(* Claims about file events and reloads.                                   *)

\* the hot-reload task waits with no event left to receive
ReloadSettled == rlPc = "wait" /\ events = <<>>

====
